---------------------------- MODULE Spec2Model ----------------------------
(***************************************************************************)
(* WinCC V8 MCP server (index.js): the credential record sessionData, the  *)
(* dispatch function makeWinCCRequest and the tool handlers registered     *)
(* with server.tool.                                                       *)
(*                                                                         *)
(* JavaScript strings are sequences of UTF-16 code units (integers).  Two  *)
(* one-element sequences with a negative entry stand for the non-string    *)
(* values null and undefined, so that every value a credential field, an   *)
(* argument or a header can hold is a sequence of integers.                *)
(***************************************************************************)
EXTENDS Integers, Sequences, FiniteSets, Bags, TLC

NULL  == <<-1>>
UNDEF == <<-2>>

\* JavaScript truthiness of a string-or-null-or-undefined value.
Truthy(v) == v # NULL /\ v # UNDEF /\ v # <<>>

\* a || b || c of lines 101-105.
OrElse(a, b) == IF Truthy(a) THEN a ELSE b

\* Code units used below.
Colon == 58

IsSurrogate(c) == c >= 55296 /\ c <= 57343

RECURSIVE Flatten(_)
Flatten(ss) == IF ss = <<>> THEN <<>> ELSE Head(ss) \o Flatten(Tail(ss))

(***************************************************************************)
(* Buffer.from(str): the UTF-8 bytes of a string.  A lone surrogate is     *)
(* replaced by U+FFFD (EF BF BD).  Surrogate pairs are not in the          *)
(* alphabets used here.                                                    *)
(***************************************************************************)
Utf8OfUnit(c) ==
  IF c < 128 THEN <<c>>
  ELSE IF c < 2048 THEN <<192 + (c \div 64), 128 + (c % 64)>>
  ELSE IF IsSurrogate(c) THEN <<239, 191, 189>>
  ELSE <<224 + (c \div 4096), 128 + ((c \div 64) % 64), 128 + (c % 64)>>

Utf8(s) ==
  IF \A i \in 1..Len(s) : s[i] < 128 THEN s
  ELSE Flatten([i \in 1..Len(s) |-> Utf8OfUnit(s[i])])

(***************************************************************************)
(* Buffer#toString('base64'): RFC 4648 base64 with padding.                *)
(***************************************************************************)
B64Char(i) ==
  IF i < 26 THEN 65 + i
  ELSE IF i < 52 THEN 97 + (i - 26)
  ELSE IF i < 62 THEN 48 + (i - 52)
  ELSE IF i = 62 THEN 43 ELSE 47

B64Pad == 61

\* The byte at position i, 0 past the end (the zero bits base64 fills in).
ByteAt(b, i) == IF i <= Len(b) THEN b[i] ELSE 0

\* Character k (1..4) of the group that encodes bytes j, j+1, j+2.
B64Group(b, j, k) ==
  IF k = 1 THEN B64Char(b[j] \div 4)
  ELSE IF k = 2 THEN B64Char((b[j] % 4) * 16 + (ByteAt(b, j + 1) \div 16))
  ELSE IF k = 3 THEN
    IF j + 1 > Len(b) THEN B64Pad
    ELSE B64Char((b[j + 1] % 16) * 4 + (ByteAt(b, j + 2) \div 64))
  ELSE IF j + 2 > Len(b) THEN B64Pad ELSE B64Char(b[j + 2] % 64)

Base64(b) ==
  [i \in 1..(4 * ((Len(b) + 2) \div 3)) |->
     B64Group(b, 3 * ((i - 1) \div 4) + 1, ((i - 1) % 4) + 1)]

(***************************************************************************)
(* encodeURIComponent: A-Z a-z 0-9 - _ . ! ~ * ' ( ) are kept, every other *)
(* code unit becomes %XX per UTF-8 byte, and a lone surrogate makes the    *)
(* call throw URIError.                                                    *)
(***************************************************************************)
IsUnreserved(c) ==
  \/ (c >= 65 /\ c <= 90) \/ (c >= 97 /\ c <= 122) \/ (c >= 48 /\ c <= 57)
  \/ c \in {45, 95, 46, 33, 126, 42, 39, 40, 41}

HexDigit(n) == IF n < 10 THEN 48 + n ELSE 55 + n

PctByte(b) == <<37, HexDigit(b \div 16), HexDigit(b % 16)>>

EncodeUnit(c) ==
  IF IsUnreserved(c) THEN <<c>>
  ELSE Flatten([i \in 1..Len(Utf8OfUnit(c)) |-> PctByte(Utf8OfUnit(c)[i])])

EncodeThrows(s) == \E i \in 1..Len(s) : IsSurrogate(s[i])

encodeURIComponent(s) == Flatten([i \in 1..Len(s) |-> EncodeUnit(s[i])])


(***************************************************************************)
(* Startup configuration (lines 101-104) and the credential record         *)
(* sessionData (lines 118-122).                                            *)
(***************************************************************************)
DefaultUsr == <<117, 115, 101, 114, 110, 97, 109, 101, 49>>   \* "username1"
DefaultPwd == <<112, 97, 115, 115, 119, 111, 114, 100, 49>>   \* "password1"

\* const X = args[...] || process.env.X || default; ConfigValueNoDefault is a
\* variant without the last operand.
ConfigValueNoDefault(cli, env, default) == OrElse(cli, env)

ConfigValue(cli, env, default) == OrElse(OrElse(cli, env), default)

InitialSessionData(cliUsr, envUsr, cliPwd, envPwd, cliTok, envTok) ==
  [usr         |-> ConfigValue(cliUsr, envUsr, DefaultUsr),
   pwd         |-> ConfigValue(cliPwd, envPwd, DefaultPwd),
   bearerToken |-> ConfigValue(cliTok, envTok, NULL)]

(***************************************************************************)
(* makeWinCCRequest, lines 125-157: the request handed to fetch.           *)
(***************************************************************************)
AppJson      == <<97, 112, 112, 108, 105, 99, 97, 116, 105, 111, 110, 47,
                  106, 115, 111, 110>>                         \* "application/json"
BearerPrefix == <<66, 101, 97, 114, 101, 114, 32>>             \* "Bearer "
BasicPrefix  == <<66, 97, 115, 105, 99, 32>>                   \* "Basic "

\* Lines 134-140.  UNDEF: no Authorization header is set.
AuthorizationIgnoresBearer(sd) ==
  IF Truthy(sd.usr) /\ Truthy(sd.pwd)
  THEN BasicPrefix \o Base64(Utf8(sd.usr \o <<Colon>> \o sd.pwd))
  ELSE IF Truthy(sd.bearerToken) THEN BearerPrefix \o sd.bearerToken
  ELSE UNDEF

AuthorizationOf(sd) ==
  IF Truthy(sd.bearerToken) THEN BearerPrefix \o sd.bearerToken
  ELSE IF Truthy(sd.usr) /\ Truthy(sd.pwd)
  THEN BasicPrefix \o Base64(Utf8(sd.usr \o <<Colon>> \o sd.pwd))
  ELSE UNDEF

\* Lines 129-140.
BaseHeaders(sd) ==
  LET h == ("Content-Type" :> AppJson) @@ ("Accept" :> AppJson)
      authorization == AuthorizationOf(sd)
  IN  IF authorization = UNDEF THEN h
      ELSE h @@ ("Authorization" :> authorization)

\* Lines 143-147.  extraHeaders is a function from header names to values;
\* the empty function stands for undefined as well as for {}.
NoHeaders == <<>>

KeepsEveryExtraHeader(v) == TRUE

KeepsExtraHeader(v) == v # UNDEF /\ v # NULL /\ v # <<>>

\* MergeHeadersKeepsBase is a variant in which an entry never replaces a
\* header already set.
MergeHeadersKeepsBase(h, extra) ==
  LET keep == {k \in DOMAIN extra : KeepsExtraHeader(extra[k])} \ DOMAIN h
  IN  IF keep = {} THEN h
      ELSE [k \in (DOMAIN h) \cup keep |-> IF k \in keep THEN extra[k] ELSE h[k]]

MergeHeaders(h, extra) ==
  LET keep == {k \in DOMAIN extra : KeepsExtraHeader(extra[k])}
  IN  IF keep = {} THEN h
      ELSE [k \in (DOMAIN h) \cup keep |-> IF k \in keep THEN extra[k] ELSE h[k]]

(***************************************************************************)
(* JSON values passed as a body.  t is the JavaScript type, key the one    *)
(* property of an object body, strs an array of strings and items an array *)
(* of objects.  JSON.stringify turns a value into a text (t = "json") that *)
(* keeps its type in of.                                                   *)
(***************************************************************************)
JsNull == [t |-> "null", of |-> "", key |-> "", strs |-> <<>>, items |-> <<>>]
NoBody == [t |-> "none", of |-> "", key |-> "", strs |-> <<>>, items |-> <<>>]

JsObject(key, strs, items) ==
  [t |-> "object", of |-> "", key |-> key, strs |-> strs, items |-> items]

JsArray(items) ==
  [t |-> "array", of |-> "", key |-> "", strs |-> <<>>, items |-> items]

BodyTruthy(b) == b.t \in {"object", "array"}

JSONstringify(b) == [b EXCEPT !.t = "json", !.of = b.t]

\* response.json(): the value a JSON text stands for.
JSONparse(text) == [text EXCEPT !.t = text.of, !.of = ""]

\* undefined: what a function that returned nothing yields.
NoData == [t |-> "undefined", of |-> "", key |-> "", strs |-> <<>>, items |-> <<>>]

\* A response body that is not JSON (an HTML error page, an empty body).
NotJson == [t |-> "text", of |-> "", key |-> "", strs |-> <<>>, items |-> <<>>]

\* Lines 155-157.
AttachesBodyAlways(method, body) == BodyTruthy(body)

AttachesBody(method, body) == BodyTruthy(body) /\ method \in {"POST", "PUT"}

\* Lines 126-157: url (the endpoint appended to WINCC_URL), options.
BuildRequest(sd, endpoint, method, body, extraHeaders) ==
  [present  |-> TRUE,
   endpoint |-> endpoint,
   method   |-> method,
   headers  |-> MergeHeaders(BaseHeaders(sd), extraHeaders),
   body     |-> IF AttachesBody(method, body) THEN JSONstringify(body) ELSE NoBody]

\* The Authorization header of a request; UNDEF when it has none.
AuthorizationHeader(request) ==
  IF "Authorization" \in DOMAIN request.headers THEN request.headers["Authorization"]
  ELSE UNDEF

(***************************************************************************)
(* The tools registered with server.tool (lines 215-1144).  kind names the *)
(* shape of the handler, path the endpoint template ("{}" is the place of  *)
(* an encoded identifier), maxv the allowMaxValues option of               *)
(* defineAlarmListTool.                                                    *)
(***************************************************************************)
Tool(name, kind, path) == [name |-> name, kind |-> kind, path |-> path, maxv |-> FALSE]

AlarmListTool(name, path, allowMaxValues) ==
  [name |-> name, kind |-> "alist", path |-> path, maxv |-> allowMaxValues]

Tools ==
  { Tool("login-user", "login", "/tagManagement/Connections"),
    Tool("wincc-get-connections", "paged", "/tagManagement/Connections"),
    Tool("wincc-get-connection", "ident1", "/tagManagement/Connection/{}"),
    Tool("wincc-get-groups", "paged", "/tagManagement/Groups"),
    Tool("wincc-get-group", "ident1", "/tagManagement/Group/{}"),
    Tool("wincc-get-structure-types", "paged", "/tagManagement/StructureTypes"),
    Tool("wincc-get-structure-type", "ident1", "/tagManagement/StructureType/{}"),
    Tool("wincc-get-structure-variables", "structvars", "/tagManagement/StructureVariables"),
    Tool("wincc-get-tag-value", "ident1", "/tagManagement/Value/{}"),
    Tool("wincc-get-tag-values", "tagvalues", "/tagManagement/Values"),
    Tool("wincc-write-tag-value", "writetag", "/tagManagement/Value/{}"),
    Tool("wincc-write-tag-values", "writetags", "/tagManagement/Values"),
    Tool("wincc-get-tag-config", "ident1", "/tagManagement/variable/{}"),
    Tool("wincc-get-tags-config", "paged", "/tagManagement/variables"),
    Tool("wincc-get-archives", "paged", "/tagLogging/Archives"),
    Tool("wincc-get-archive", "ident1", "/tagLogging/Archive/{}"),
    Tool("wincc-get-archive-variable", "ident2", "/tagLogging/Archive/{}/Variable/{}"),
    Tool("wincc-get-archive-variables", "identpaged", "/tagLogging/Archive/{}/Variables"),
    Tool("wincc-get-archive-value", "ident2", "/tagLogging/Archive/{}/Value/{}"),
    Tool("wincc-get-archive-values", "archvalues", "/tagLogging/Values"),
    Tool("wincc-get-timers", "paged", "/tagLogging/Timers"),
    Tool("wincc-get-timer", "ident1", "/tagLogging/Timer/{}"),
    Tool("wincc-get-archive-tag", "ident1", "/tagLogging/Variable/{}"),
    Tool("wincc-get-archive-tags", "paged", "/tagLogging/Variables"),
    Tool("wincc-get-alarm-message-classes", "apaged", "/alarmLogging/MessageClasses"),
    Tool("wincc-get-alarm-message-class", "aident1", "/alarmLogging/MessageClass/{}"),
    Tool("wincc-get-alarm-message-types", "apaged", "/alarmLogging/MessageTypes"),
    Tool("wincc-get-alarm-message-type", "aident1", "/alarmLogging/MessageType/{}"),
    Tool("wincc-get-alarm-message-blocks", "apaged", "/alarmLogging/MessageBlocks"),
    Tool("wincc-get-alarm-message-block", "aident1", "/alarmLogging/MessageBlock/{}"),
    Tool("wincc-get-alarm-messages", "apaged", "/alarmLogging/Messages"),
    Tool("wincc-get-alarm-message", "amessage", "/alarmLogging/Message/{}"),
    Tool("wincc-get-alarm-limit-values", "apaged", "/alarmLogging/LimitValues"),
    Tool("wincc-get-alarm-limit-value", "aident1", "/alarmLogging/LimitValue/{}"),
    Tool("wincc-get-alarm-message-groups", "apaged", "/alarmLogging/MessageGroups"),
    Tool("wincc-get-alarm-message-group", "aident1", "/alarmLogging/MessageGroup/{}"),
    Tool("wincc-get-alarm-rest-filters", "afilters", "/alarmLogging/RestFilters"),
    Tool("wincc-get-alarm-rest-filter", "aident1", "/alarmLogging/RestFilter/{}"),
    AlarmListTool("wincc-get-alarm-message-list", "/alarmLogging/MessageList/{}", FALSE),
    AlarmListTool("wincc-get-alarm-short-term-archive", "/alarmLogging/ShortTermArchive/{}", TRUE),
    AlarmListTool("wincc-get-alarm-long-term-archive", "/alarmLogging/LongTermArchive/{}", TRUE),
    AlarmListTool("wincc-get-alarm-hit-list", "/alarmLogging/HitList/{}", TRUE),
    AlarmListTool("wincc-get-alarm-lock-list", "/alarmLogging/LockList/{}", FALSE),
    AlarmListTool("wincc-get-alarm-hide-list", "/alarmLogging/Hidelist/{}", FALSE),
    AlarmListTool("wincc-get-alarm-hidden-message-list", "/alarmLogging/HiddenMessageList/{}", FALSE) }

ToolsOfKind(k) == {t \in Tools : t.kind = k}

(***************************************************************************)
(* Tool arguments.  One record shape serves every tool; a field a tool     *)
(* does not declare stays absent.  id1, id2 are the identifiers of the     *)
(* tool in the order of its schema; an optional number is <<>> when absent *)
(* and <<n>> when supplied; UndefList is an absent array.                  *)
(***************************************************************************)
UndefList == <<UNDEF>>

\* An element of tagValues ({variableName, value}) or of archives ({name,
\* variables}); UndefItems is an absent array of them.
Item(name, value, variables) == [name |-> name, value |-> value, variables |-> variables]

UndefItems == <<Item(UNDEF, UNDEF, <<>>)>>
NoNumber  == <<>>

\* A string | number | boolean value: a string is itself.
JsNumber(n)  == <<-3, n>>
JsBoolean(b) == <<-4, IF b THEN 1 ELSE 0>>

NoArgs ==
  [username |-> UNDEF, password |-> UNDEF, id1 |-> UNDEF, id2 |-> UNDEF,
   itemLimit |-> NoNumber, continuationPoint |-> NoNumber, maxValues |-> NoNumber,
   acceptLanguage |-> UNDEF, contentLanguage |-> UNDEF,
   names |-> UndefList, items |-> UndefItems, value |-> UNDEF, number |-> NoNumber]

\* Number.prototype.toString / String(n) of a natural number below 100.
Digit(d) == 48 + d

NumberToString(n) == IF n < 10 THEN <<Digit(n)>> ELSE <<Digit(n \div 10), Digit(n % 10)>>

(***************************************************************************)
(* The zod schemas of the tools: the MCP SDK calls a handler only with     *)
(* arguments its schema accepts.                                           *)
(***************************************************************************)
IsString(v) == IF v = <<>> THEN TRUE ELSE v[1] >= 0

\* z.string().min(1, ...)
AnyString(v) == IsString(v)

NonEmptyString(v) == IsString(v) /\ Len(v) >= 1

SchemaOK(tool, args) ==
  CASE tool.kind = "login" ->
         NonEmptyString(args.username) /\ NonEmptyString(args.password)
    [] tool.kind \in {"ident1", "aident1", "alist", "identpaged"} ->
         NonEmptyString(args.id1)
    [] tool.kind = "ident2" ->
         NonEmptyString(args.id1) /\ NonEmptyString(args.id2)
    [] tool.kind = "tagvalues" ->
         args.names # UndefList /\ Len(args.names) >= 1
    [] tool.kind = "writetag" ->
         NonEmptyString(args.id1) /\ args.value # UNDEF
    [] tool.kind = "writetags" ->
         args.items # UndefItems /\ Len(args.items) >= 1
    [] tool.kind = "amessage" ->
         IF IsString(args.id1) THEN TRUE ELSE args.number # NoNumber
    [] OTHER -> TRUE

(***************************************************************************)
(* Errors: message as the format of the template string that builds it,    *)
(* with the values put into it.                                            *)
(***************************************************************************)
Err(fmt, status, statusText) == [fmt |-> fmt, status |-> status, statusText |-> statusText]

NoErr      == Err("", 0, "")
URIError   == Err("URI malformed", 0, "")
NeitherErr == Err("Either variableNames or archives must be provided", 0, "")

(***************************************************************************)
(* The part of each handler that runs before makeWinCCRequest: the         *)
(* endpoint, method, body and extra headers, or the error thrown while     *)
(* building them.                                                          *)
(***************************************************************************)
Endpoint(path, ids, query) == [path |-> path, ids |-> ids, query |-> query]

Param(name, value) == [name |-> name, value |-> value]

\* if (itemLimit) params.append(...); if (continuationPoint) params.append(...)
NumberTruthy(n) == n # NoNumber /\ n[1] # 0

Paging(args) ==
  (IF NumberTruthy(args.itemLimit)
   THEN <<Param("itemLimit", NumberToString(args.itemLimit[1]))>> ELSE <<>>)
  \o
  (IF NumberTruthy(args.continuationPoint)
   THEN <<Param("continuationPoint", NumberToString(args.continuationPoint[1]))>> ELSE <<>>)

\* { ...(acceptLanguage ? {'Accept-Language': acceptLanguage} : {}), ... }
LangHeaders(args) ==
  (IF Truthy(args.acceptLanguage) THEN ("Accept-Language" :> args.acceptLanguage) ELSE NoHeaders)
  @@
  (IF Truthy(args.contentLanguage) THEN ("Content-Language" :> args.contentLanguage) ELSE NoHeaders)

\* if (allowMaxValues && typeof args.maxValues === 'number');
\* MaxValuesParamIfTruthy is a variant that tests the number's truthiness.
MaxValuesParamIfTruthy(tool, args) ==
  IF tool.maxv /\ NumberTruthy(args.maxValues)
  THEN <<Param("maxValues", NumberToString(args.maxValues[1]))>> ELSE <<>>

MaxValuesParam(tool, args) ==
  IF tool.maxv /\ args.maxValues # NoNumber
  THEN <<Param("maxValues", NumberToString(args.maxValues[1]))>> ELSE <<>>

\* String(messageNumber)
MessageNumberString(args) ==
  IF args.number # NoNumber THEN NumberToString(args.number[1]) ELSE args.id1

Call(endpoint, method, body, extraHeaders) ==
  [throws |-> FALSE, error |-> NoErr, endpoint |-> endpoint, method |-> method,
   body |-> body, extraHeaders |-> extraHeaders]

Throw(error) ==
  [throws |-> TRUE, error |-> error, endpoint |-> Endpoint("", <<>>, <<>>),
   method |-> "", body |-> JsNull, extraHeaders |-> NoHeaders]

\* GET of a path with identifiers: encodeURIComponent throws on a lone surrogate.
Get(tool, ids, query, extraHeaders) ==
  IF \E i \in 1..Len(ids) : EncodeThrows(ids[i]) THEN Throw(URIError)
  ELSE Call(Endpoint(tool.path, [i \in 1..Len(ids) |-> encodeURIComponent(ids[i])], query),
            "GET", JsNull, extraHeaders)

\* wincc-get-archive-values, lines 627-638.  ArchiveValuesArchivesFirst is a
\* variant that prefers archives.
ArchiveValuesArchivesFirst(tool, args) ==
  IF args.items # UndefItems
  THEN Call(Endpoint(tool.path, <<>>, <<>>), "POST",
            JsObject("archives", <<>>, args.items), NoHeaders)
  ELSE IF args.names # UndefList
  THEN Call(Endpoint(tool.path, <<>>, <<>>), "POST",
            JsObject("variableNames", args.names, <<>>), NoHeaders)
  ELSE Throw(NeitherErr)

ArchiveValues(tool, args) ==
  IF args.names # UndefList
  THEN Call(Endpoint(tool.path, <<>>, <<>>), "POST",
            JsObject("variableNames", args.names, <<>>), NoHeaders)
  ELSE IF args.items # UndefItems
  THEN Call(Endpoint(tool.path, <<>>, <<>>), "POST",
            JsObject("archives", <<>>, args.items), NoHeaders)
  ELSE Throw(NeitherErr)

\* const body = { value }, line 436.  WriteTagBodyIfTruthy is a variant that
\* sends no body for a falsy value.
WriteTagBodyIfTruthy(value) ==
  IF value \in {<<>>, JsNumber(0), JsBoolean(FALSE)} THEN JsNull
  ELSE JsObject("value", <<value>>, <<>>)

WriteTagBody(value) == JsObject("value", <<value>>, <<>>)

Plan(tool, args) ==
  CASE tool.kind = "login" ->
         Call(Endpoint("/tagManagement/Connections", <<>>, <<>>), "GET", JsNull, NoHeaders)
    [] tool.kind = "paged" -> Get(tool, <<>>, Paging(args), NoHeaders)
    [] tool.kind = "ident1" -> Get(tool, <<args.id1>>, <<>>, NoHeaders)
    [] tool.kind = "ident2" -> Get(tool, <<args.id1, args.id2>>, <<>>, NoHeaders)
    [] tool.kind = "identpaged" -> Get(tool, <<args.id1>>, Paging(args), NoHeaders)
    [] tool.kind = "structvars" ->
         IF Truthy(args.id1)
         THEN Get([tool EXCEPT !.path = "/tagManagement/StructureVariable/{}"],
                  <<args.id1>>, <<>>, NoHeaders)
         ELSE IF args.names # UndefList
         THEN Call(Endpoint(tool.path, <<>>, <<>>), "POST",
                   JsObject("typeNames", args.names, <<>>), NoHeaders)
         ELSE Call(Endpoint(tool.path, <<>>, <<>>), "GET", JsNull, NoHeaders)
    [] tool.kind = "tagvalues" ->
         Call(Endpoint(tool.path, <<>>, <<>>), "POST",
              JsObject("variableNames", args.names, <<>>), NoHeaders)
    [] tool.kind = "writetag" ->
         IF EncodeThrows(args.id1) THEN Throw(URIError)
         ELSE Call(Endpoint(tool.path, <<encodeURIComponent(args.id1)>>, <<>>), "PUT",
                   WriteTagBody(args.value), NoHeaders)
    [] tool.kind = "writetags" ->
         Call(Endpoint(tool.path, <<>>, <<>>), "PUT", JsArray(args.items), NoHeaders)
    [] tool.kind = "archvalues" -> ArchiveValues(tool, args)
    [] tool.kind = "apaged" -> Get(tool, <<>>, Paging(args), LangHeaders(args))
    [] tool.kind = "aident1" -> Get(tool, <<args.id1>>, <<>>, LangHeaders(args))
    [] tool.kind = "amessage" ->
         Get(tool, <<MessageNumberString(args)>>, <<>>, LangHeaders(args))
    [] tool.kind = "afilters" -> Get(tool, <<>>, <<>>, LangHeaders(args))
    [] tool.kind = "alist" ->
         Get(tool, <<args.id1>>, MaxValuesParam(tool, args), LangHeaders(args))

(***************************************************************************)
(* What the backend (or the network) answers to one request.               *)
(***************************************************************************)
Http(status, statusText, json, data) ==
  [kind |-> "http", status |-> status, statusText |-> statusText,
   json |-> json, data |-> data, code |-> ""]

NetErr(code) ==
  [kind |-> "neterr", status |-> 0, statusText |-> "", json |-> FALSE, data |-> NoBody,
   code |-> code]

Responses ==
  { Http(200, "OK", TRUE, JSONstringify(JsObject("value", <<<<97>>>>, <<>>))),     \* {"value":"a"}
    Http(200, "OK", TRUE, JSONstringify(JsNull)),
    Http(200, "OK", FALSE, NotJson),
    Http(304, "Not Modified", FALSE, NoBody),
    Http(401, "Unauthorized", TRUE, JSONstringify(JsObject("error", <<<<98>>>>, <<>>))),
                                                                              \* {"error":"b"}
    NetErr("ECONNREFUSED"), NetErr("ETIMEDOUT") }

\* Response.ok of the fetch API, read at line 162.
ResponseOk(resp) == resp.status >= 200 /\ resp.status <= 299

(***************************************************************************)
(* makeWinCCRequest, lines 159-198: what it does with the answer.  parsed  *)
(* tells whether response.json() was called.  The catch block logs and     *)
(* throws the error it caught.                                             *)
(***************************************************************************)
Returned(data) == [threw |-> FALSE, error |-> NoErr, data |-> data, parsed |-> TRUE]

Threw(error, parsed) == [threw |-> TRUE, error |-> error, data |-> NoData, parsed |-> parsed]

SettleSwallows(resp) ==
  IF resp.kind = "http" /\ ResponseOk(resp) /\ resp.json
  THEN Returned(JSONparse(resp.data))
  ELSE [threw |-> FALSE, error |-> NoErr, data |-> NoData,
        parsed |-> resp.kind = "http" /\ ResponseOk(resp)]

SettleParsesFirst(resp) ==
  IF resp.kind = "neterr" THEN Threw(Err("fetch failed", 0, ""), FALSE)
  ELSE IF ~resp.json THEN Threw(Err("Unexpected token", 0, ""), TRUE)
  ELSE IF ~ResponseOk(resp)
  THEN Threw(Err("HTTP {status}: {statusText}", resp.status, resp.statusText), TRUE)
  ELSE Returned(JSONparse(resp.data))

SettleFilters(resp) ==
  IF resp.kind = "neterr" THEN Threw(Err("fetch failed", 0, ""), FALSE)
  ELSE IF ~ResponseOk(resp)
  THEN Threw(Err("HTTP {status}: {statusText}", resp.status, resp.statusText), FALSE)
  ELSE IF ~resp.json THEN Threw(Err("Unexpected token", 0, ""), TRUE)
  ELSE Returned([JSONparse(resp.data) EXCEPT !.strs = <<>>])

Settle(resp) ==
  IF resp.kind = "neterr" THEN Threw(Err("fetch failed", 0, ""), FALSE)
  ELSE IF ~ResponseOk(resp)
  THEN Threw(Err("HTTP {status}: {statusText}", resp.status, resp.statusText), FALSE)
  ELSE IF ~resp.json THEN Threw(Err("Unexpected token", 0, ""), TRUE)
  ELSE Returned(JSONparse(resp.data))

(***************************************************************************)
(* The result of a tool call.  mcpResult (lines 1268-1277) wraps a text;   *)
(* a text is the tool's success or error template with the identifiers,    *)
(* the error message and the JSON data put into it.  escaped: the handler  *)
(* threw instead of returning.                                             *)
(***************************************************************************)
Text(tool, ok, ids, error, data) ==
  [tool |-> tool, ok |-> ok, ids |-> ids, error |-> error, data |-> data]

mcpResult(text) == [escaped |-> FALSE, content |-> <<[type |-> "text", text |-> text]>>]

Escapes(error) == [escaped |-> TRUE, content |-> <<>>]

\* The identifiers a tool puts into its texts.
MsgIds(tool, args) ==
  CASE tool.kind = "login" -> <<args.username>>
    [] tool.kind \in {"ident1", "aident1", "alist", "identpaged", "writetag"} -> <<args.id1>>
    [] tool.kind = "ident2" -> <<args.id2, args.id1>>
    [] tool.kind = "amessage" -> <<MessageNumberString(args)>>
    [] OTHER -> <<>>

\* catch (error) { return mcpResult(`Error ...: ${error.message}`); }
CatchRethrows(tool, ids, error) == Escapes(error)

Catch(tool, ids, error) == mcpResult(Text(tool, FALSE, ids, error, NoData))

\* The handler after await makeWinCCRequest(...): try { ... return } catch { ... }
HandlerResult(tool, ids, outcome) ==
  IF outcome.threw THEN Catch(tool, ids, outcome.error)
  ELSE mcpResult(Text(tool, TRUE, ids, NoErr,
                      IF tool = "login-user" THEN NoData ELSE JSONstringify(outcome.data)))

(***************************************************************************)
(* The arguments tried for each kind of tool.                              *)
(***************************************************************************)
StrA      == <<97>>           \* "a"
StrAColon == <<97, 58>>       \* "a:"
StrB      == <<98>>           \* "b"
StrC      == <<99>>           \* "c"
StrEn     == <<101, 110>>     \* "en"
StrTok    == <<116>>          \* "t"
StrSlash  == <<47>>           \* "/"
StrSurr   == <<55296>>        \* "\uD800", a high surrogate with no low surrogate after it

Usernames == {<<>>, StrA, StrAColon}
Passwords == {<<>>, StrB, StrC}
Idents    == {<<>>, StrA, StrSurr}
LangPairs == {<<<<>>, StrEn>>, <<StrEn, UNDEF>>}
PagingPairs == {<<<<0>>, NoNumber>>, <<<<5>>, NoNumber>>, <<NoNumber, <<7>>>>, <<<<5>>, <<7>>>>}
MaxValuesArgs == {<<0>>, <<5>>}
NameLists == {UndefList, <<>>, <<StrA>>}
TagValueLists == {UndefItems, <<>>, <<Item(StrA, JsNumber(0), <<>>)>>}
ArchiveLists ==
  {UndefItems, <<Item(StrA, UNDEF, <<[name |-> StrB, maxValues |-> <<5>>]>>)>>}
TagValues == {UNDEF, <<>>, JsNumber(0), JsBoolean(FALSE), StrA}

WithPaging(a) ==
  {[a EXCEPT !.itemLimit = p[1], !.continuationPoint = p[2]] : p \in PagingPairs}

WithLang(a) ==
  {[a EXCEPT !.acceptLanguage = p[1], !.contentLanguage = p[2]] : p \in LangPairs}

WithId1(ids) == {[NoArgs EXCEPT !.id1 = i] : i \in ids}

A1 == [NoArgs EXCEPT !.id1 = StrA]

ArgsOf(kind) ==
  CASE kind = "login" ->
         {[NoArgs EXCEPT !.username = u, !.password = p] : u \in Usernames, p \in Passwords}
    [] kind = "paged" -> {NoArgs} \cup WithPaging(NoArgs)
    [] kind = "ident1" -> WithId1(Idents)
    [] kind = "ident2" -> {[a EXCEPT !.id2 = i] : a \in WithId1(Idents), i \in Idents}
    [] kind = "identpaged" -> WithId1(Idents) \cup WithPaging(A1)
    [] kind = "structvars" ->
         {[a EXCEPT !.names = n] : a \in WithId1(Idents \cup {UNDEF}), n \in {UndefList, <<StrA>>}}
    [] kind = "tagvalues" -> {[NoArgs EXCEPT !.names = n] : n \in NameLists}
    [] kind = "writetag" ->
         {[a EXCEPT !.value = v] : a \in WithId1(Idents \cup {StrSlash}), v \in TagValues}
    [] kind = "writetags" -> {[NoArgs EXCEPT !.items = l] : l \in TagValueLists}
    [] kind = "archvalues" ->
         {[NoArgs EXCEPT !.names = n, !.items = l] : n \in NameLists, l \in ArchiveLists}
    [] kind = "apaged" -> {NoArgs} \cup WithPaging(NoArgs) \cup WithLang(NoArgs)
    [] kind = "aident1" -> WithId1(Idents) \cup WithLang(A1)
    [] kind = "amessage" ->
         WithId1(Idents \cup {UNDEF}) \cup {[NoArgs EXCEPT !.number = <<12>>]} \cup WithLang(A1)
    [] kind = "afilters" -> {NoArgs} \cup WithLang(NoArgs)
    [] kind = "alist" ->
         WithId1(Idents) \cup WithLang(A1)
         \cup {[a EXCEPT !.maxValues = m] : a \in {A1} \cup WithLang(A1), m \in MaxValuesArgs}
         \cup {[A1 EXCEPT !.itemLimit = <<5>>, !.continuationPoint = <<7>>]}

(***************************************************************************)
(* A tool call as the MCP SDK receives it: the tool, the arguments, the    *)
(* schema's verdict and, for accepted arguments, what the handler builds.  *)
(***************************************************************************)
\* The identifying arguments of a call: the names its schema declares, as the
\* caller supplied them (an optional one only when supplied).
Supplied(tool, args) ==
  CASE tool.kind = "login" -> {args.username}
    [] tool.kind \in {"ident1", "aident1", "alist", "identpaged", "writetag"} -> {args.id1}
    [] tool.kind = "ident2" -> {args.id1, args.id2}
    [] tool.kind = "structvars" -> {args.id1} \ {UNDEF}
    [] tool.kind = "amessage" -> IF args.number = NoNumber THEN {args.id1} ELSE {}
    [] OTHER -> {}

Invocation(tool, args) ==
  [tool |-> tool, args |-> args, ok |-> SchemaOK(tool, args),
   supplied |-> Supplied(tool, args),
   plan |-> IF SchemaOK(tool, args) THEN Plan(tool, args) ELSE Throw(NoErr),
   ids  |-> MsgIds(tool, args)]

Calls == UNION {{Invocation(t, a) : a \in ArgsOf(t.kind)} : t \in Tools}

\* The tools called while other calls are in flight (specification SpecConc).
ConcTools == {"login-user", "wincc-get-connection", "wincc-get-archive-values"}

\* Of login-user, the calls as ("", "b"), ("a", "b") and ("a:", "c").
ConcLogins == {<<<<>>, StrB>>, <<StrA, StrB>>, <<StrAColon, StrC>>}

ConcCalls ==
  {c \in Calls : /\ c.tool.name \in ConcTools
                 /\ c.tool.kind = "login" =>
                      <<c.args.username, c.args.password>> \in ConcLogins}

(***************************************************************************)
(* State.                                                                  *)
(*   sessionData  the credential record (lines 118-122)                    *)
(*   inflight     the handlers suspended at await fetch(...), a bag        *)
(*   invoked      the tool call this step received                         *)
(*   call         the arguments of the makeWinCCRequest call of this step  *)
(*   sent         the request this step handed to fetch                    *)
(*   done         the tool call this step completed, with its result       *)
(*   lastLogin    the arguments of the latest login-user handler run       *)
(*   history      the backend's answer and the dispatches repeated against *)
(*                it (SpecRepeat)                                          *)
(*   startup      the start of the process: command line, environment,     *)
(*                configuration, port, exit status (SpecStartup)           *)
(*   reply        the answer this step gave to a GET or DELETE on /mcp     *)
(* invoked, call, sent, done and reply describe the step just taken and    *)
(* are reset by the next one.                                              *)
(***************************************************************************)
VARIABLES sessionData, inflight, invoked, call, sent, done, lastLogin, history, startup,
          reply

vars ==
  <<sessionData, inflight, invoked, call, sent, done, lastLogin, history, startup, reply>>

\* SpecConc: the number of tool calls in flight at once.
MaxInFlight == 2

NoRequest ==
  [present |-> FALSE, endpoint |-> Endpoint("", <<>>, <<>>), method |-> "",
   headers |-> NoHeaders, body |-> NoBody]

NoInvoked == [present |-> FALSE, tool |-> Tool("", "", ""), args |-> NoArgs]

Invoked(c) == [present |-> TRUE, tool |-> c.tool, args |-> c.args]

NoCall == [present |-> FALSE, endpoint |-> Endpoint("", <<>>, <<>>), method |-> "",
           body |-> JsNull, extraHeaders |-> NoHeaders]

CallOf(plan) ==
  [present |-> TRUE, endpoint |-> plan.endpoint, method |-> plan.method,
   body |-> plan.body, extraHeaders |-> plan.extraHeaders]

NoSent == [by |-> "", request |-> NoRequest]

NoResponse ==
  [kind |-> "none", status |-> 0, statusText |-> "", json |-> FALSE, data |-> NoBody,
   code |-> ""]

NoOutcome == [threw |-> FALSE, error |-> NoErr, data |-> NoData, parsed |-> FALSE]

NoDone ==
  [present |-> FALSE, tool |-> "", supplied |-> {}, ids |-> <<>>, accepted |-> FALSE,
   fetches |-> 0,
   response |-> NoResponse, outcome |-> NoOutcome,
   result |-> [escaped |-> FALSE, content |-> <<>>]]

Done(tool, supplied, ids, accepted, fetches, response, outcome, result) ==
  [present |-> TRUE, tool |-> tool, supplied |-> supplied, ids |-> ids, accepted |-> accepted,
   fetches |-> fetches,
   response |-> response, outcome |-> outcome, result |-> result]

NoLogin == [set |-> FALSE, username |-> UNDEF, password |-> UNDEF]

\* history: the backend's state, as the answer it gives, and the dispatches
\* repeated against it (specification SpecRepeat); not used elsewhere.
NoHistory == [backend |-> NoResponse, runs |-> <<>>]

\* The process after app.listen: what Spec, SpecConc, SpecBuild and SpecRepeat
\* start from.
Started == [pc |-> "listening"]

\* reply: the answer to a GET or a DELETE on /mcp; body is the text written,
\* the serialisation of value.
RpcError(code, message) ==
  [jsonrpc |-> "2.0", error |-> [code |-> code, message |-> message], id |-> NULL]

\* JSON.stringify of the object written as the reply's body.
RpcText(value) == [json |-> TRUE, value |-> value]

NoReply ==
  [present |-> FALSE, method |-> "", status |-> 0,
   body |-> [json |-> FALSE, value |-> RpcError(0, "")]]

\* A handler suspended at await fetch(url, options): supplied are the
\* identifying arguments it was called with, authorization is the Authorization header of the
\* options it passed (UNDEF: none), ahead the number of calls that were in
\* flight when it was suspended.
Suspended(tool, supplied, ids, fetches, authorization, ahead) ==
  [tool |-> tool, supplied |-> supplied, ids |-> ids, fetches |-> fetches,
   authorization |-> authorization, ahead |-> ahead]

CliTokens == {UNDEF, StrTok}
EnvTokens == {UNDEF, <<>>}
CliUsers  == {UNDEF, <<>>}
EnvPwds   == {UNDEF, <<>>}

Init ==
  /\ \E cliUsr \in CliUsers, envPwd \in EnvPwds, cliTok \in CliTokens, envTok \in EnvTokens :
       sessionData = InitialSessionData(cliUsr, UNDEF, UNDEF, envPwd, cliTok, envTok)
  /\ inflight = EmptyBag
  /\ invoked = NoInvoked
  /\ call = NoCall
  /\ sent = NoSent
  /\ done = NoDone
  /\ lastLogin = NoLogin
  /\ history = NoHistory
  /\ startup = Started
  /\ reply = NoReply

\* Spec: a tool call arrives when no other is in flight.
NoneInFlight == inflight = EmptyBag

\* SpecConc: a tool call arrives while fewer than MaxInFlight are in flight.
RoomInFlight == BagCardinality(inflight) < MaxInFlight

(***************************************************************************)
(* The MCP SDK refuses arguments the tool's schema does not accept: the    *)
(* handler is not run, the caller gets the validation message.             *)
(***************************************************************************)
InvalidArguments(tool) ==
  mcpResult(Text(tool, FALSE, <<>>, Err("Invalid arguments for tool", 0, ""), NoData))

RejectArguments(calls, free) ==
  \E c \in calls :
    /\ free
    /\ ~c.ok
    /\ done' = Done(c.tool.name, c.supplied, <<>>, FALSE, 0, NoResponse, NoOutcome,
                    InvalidArguments(c.tool.name))
    /\ invoked' = Invoked(c)
    /\ call' = NoCall
    /\ sent' = NoSent
    /\ UNCHANGED <<sessionData, inflight, lastLogin, history, startup>>
    /\ reply' = NoReply

(***************************************************************************)
(* A handler other than login-user, up to its first await: it builds the   *)
(* endpoint and either throws into its own catch (HandlerThrows) or calls  *)
(* makeWinCCRequest, which builds the request, hands it to fetch and       *)
(* suspends (HandlerDispatches).                                           *)
(***************************************************************************)
HandlerThrows(calls, free) ==
  \E c \in calls :
    /\ free
    /\ c.tool.kind # "login"
    /\ c.ok
    /\ c.plan.throws
    /\ done' = Done(c.tool.name, c.supplied, c.ids, TRUE, 0, NoResponse, NoOutcome,
                    Catch(c.tool.name, c.ids, c.plan.error))
    /\ invoked' = Invoked(c)
    /\ call' = NoCall
    /\ sent' = NoSent
    /\ UNCHANGED <<sessionData, inflight, lastLogin, history, startup>>
    /\ reply' = NoReply

HandlerDispatches(calls, free) ==
  \E c \in calls :
    /\ free
    /\ c.tool.kind # "login"
    /\ c.ok
    /\ ~c.plan.throws
    /\ invoked' = Invoked(c)
    /\ call' = CallOf(c.plan)
    /\ sent' = [by |-> c.tool.name,
                request |-> BuildRequest(sessionData, c.plan.endpoint, c.plan.method,
                                         c.plan.body, c.plan.extraHeaders)]
    /\ inflight' = inflight (+) SetToBag({Suspended(c.tool.name, c.supplied, c.ids, 1,
                                                    AuthorizationHeader(sent'.request),
                                                    BagCardinality(inflight))})
    /\ done' = NoDone
    /\ UNCHANGED <<sessionData, lastLogin, history, startup>>
    /\ reply' = NoReply

(***************************************************************************)
(* login-user, lines 224-230: the three assignments to sessionData, then   *)
(* makeWinCCRequest("/tagManagement/Connections") up to its await.         *)
(***************************************************************************)
LoggedIn(username, password) ==
  [usr |-> username, pwd |-> password, bearerToken |-> NULL]

\* A variant of LoginUser the source does not have: the requests already
\* handed to fetch take the new credentials too.
LoginUserReachesInFlight(calls, free) ==
  \E c \in calls :
    /\ free
    /\ c.tool.kind = "login"
    /\ c.ok
    /\ sessionData' = LoggedIn(c.args.username, c.args.password)
    /\ invoked' = Invoked(c)
    /\ call' = CallOf(c.plan)
    /\ sent' = [by |-> c.tool.name,
                request |-> BuildRequest(sessionData', c.plan.endpoint, c.plan.method,
                                         c.plan.body, c.plan.extraHeaders)]
    /\ lastLogin' = [set |-> TRUE, username |-> c.args.username, password |-> c.args.password]
    /\ inflight' = SetToBag({[h EXCEPT !.authorization = AuthorizationHeader(sent'.request)] :
                               h \in BagToSet(inflight)})
                   (+) SetToBag({Suspended(c.tool.name, c.supplied, c.ids, 1,
                                           AuthorizationHeader(sent'.request),
                                           BagCardinality(inflight))})
    /\ done' = NoDone
    /\ UNCHANGED <<history, startup>>
    /\ reply' = NoReply

\* A variant of LoginUser the source does not have: the request is built
\* between the assignment of the username and that of the password.
LoginUserBetweenAssignments(calls, free) ==
  \E c \in calls :
    /\ free
    /\ c.tool.kind = "login"
    /\ c.ok
    /\ sessionData' = LoggedIn(c.args.username, c.args.password)
    /\ invoked' = Invoked(c)
    /\ call' = CallOf(c.plan)
    /\ sent' = [by |-> c.tool.name,
                request |-> BuildRequest([sessionData' EXCEPT !.pwd = sessionData.pwd],
                                         c.plan.endpoint, c.plan.method,
                                         c.plan.body, c.plan.extraHeaders)]
    /\ lastLogin' = [set |-> TRUE, username |-> c.args.username, password |-> c.args.password]
    /\ inflight' = inflight (+) SetToBag({Suspended(c.tool.name, c.supplied, c.ids, 1,
                                                    AuthorizationHeader(sent'.request),
                                                    BagCardinality(inflight))})
    /\ done' = NoDone
    /\ UNCHANGED <<history, startup>>
    /\ reply' = NoReply

LoginUser(calls, free) ==
  \E c \in calls :
    /\ free
    /\ c.tool.kind = "login"
    /\ c.ok
    /\ sessionData' = LoggedIn(c.args.username, c.args.password)
    /\ invoked' = Invoked(c)
    /\ call' = CallOf(c.plan)
    /\ sent' = [by |-> c.tool.name,
                request |-> BuildRequest(sessionData', c.plan.endpoint, c.plan.method,
                                         c.plan.body, c.plan.extraHeaders)]
    /\ lastLogin' = [set |-> TRUE, username |-> c.args.username, password |-> c.args.password]
    /\ inflight' = inflight (+) SetToBag({Suspended(c.tool.name, c.supplied, c.ids, 1,
                                                    AuthorizationHeader(sent'.request),
                                                    BagCardinality(inflight))})
    /\ done' = NoDone
    /\ UNCHANGED <<history, startup>>
    /\ reply' = NoReply

\* Variants of ResponseArrives the source does not have: credentials dropped
\* when the backend answers 401; a failed request issued a second time.
ResponseArrivesDropsCredentials ==
  \E h \in BagToSet(inflight) : \E resp \in Responses :
    /\ inflight' = inflight (-) SetToBag({h})
    /\ done' = Done(h.tool, h.supplied, h.ids, TRUE, h.fetches, resp, Settle(resp),
                    HandlerResult(h.tool, h.ids, Settle(resp)))
    /\ invoked' = NoInvoked
    /\ call' = NoCall
    /\ sent' = NoSent
    /\ sessionData' = IF resp.status = 401
                      THEN [usr |-> NULL, pwd |-> NULL, bearerToken |-> NULL]
                      ELSE sessionData
    /\ UNCHANGED <<lastLogin, history, startup>>
    /\ reply' = NoReply

ResponseArrivesRetries ==
  \E h \in BagToSet(inflight) : \E resp \in Responses :
    /\ invoked' = NoInvoked
    /\ call' = NoCall
    /\ IF Settle(resp).threw /\ h.fetches < 2
       THEN /\ inflight' = (inflight (-) SetToBag({h}))
                           (+) SetToBag({Suspended(h.tool, h.supplied, h.ids, h.fetches + 1,
                                                   h.authorization, h.ahead)})
            /\ sent' = [by |-> h.tool, request |-> [NoRequest EXCEPT !.present = TRUE]]
            /\ done' = NoDone
       ELSE /\ inflight' = inflight (-) SetToBag({h})
            /\ sent' = NoSent
            /\ done' = Done(h.tool, h.supplied, h.ids, TRUE, h.fetches, resp, Settle(resp),
                            HandlerResult(h.tool, h.ids, Settle(resp)))
    /\ UNCHANGED <<sessionData, lastLogin, history, startup>>
    /\ reply' = NoReply

\* A variant of ResponseArrives the source does not have: one queue, the
\* calls answered in the order they were dispatched.
ResponseArrivesQueued ==
  \E h \in BagToSet(inflight) : \E resp \in Responses :
    /\ \A g \in BagToSet(inflight) : g.ahead >= h.ahead
    /\ inflight' = inflight (-) SetToBag({h})
    /\ done' = Done(h.tool, h.supplied, h.ids, TRUE, h.fetches, resp, Settle(resp),
                    HandlerResult(h.tool, h.ids, Settle(resp)))
    /\ invoked' = NoInvoked
    /\ call' = NoCall
    /\ sent' = NoSent
    /\ UNCHANGED <<sessionData, lastLogin, history, startup>>
    /\ reply' = NoReply

\* A variant of ResponseArrives the source does not have: a login stores its
\* username again when its verification request has succeeded.
ResponseArrivesCommitsLogin ==
  \E h \in BagToSet(inflight) : \E resp \in Responses :
    /\ inflight' = inflight (-) SetToBag({h})
    /\ done' = Done(h.tool, h.supplied, h.ids, TRUE, h.fetches, resp, Settle(resp),
                    HandlerResult(h.tool, h.ids, Settle(resp)))
    /\ invoked' = NoInvoked
    /\ call' = NoCall
    /\ sent' = NoSent
    /\ sessionData' = IF h.tool = "login-user" /\ ~Settle(resp).threw
                      THEN [sessionData EXCEPT !.usr = h.ids[1]]
                      ELSE sessionData
    /\ UNCHANGED <<lastLogin, history, startup>>
    /\ reply' = NoReply

\* A variant of ResponseArrives the source does not have: a login whose
\* verification request failed puts the default credentials back.
ResponseArrivesRollsBackLogin ==
  \E h \in BagToSet(inflight) : \E resp \in Responses :
    /\ inflight' = inflight (-) SetToBag({h})
    /\ done' = Done(h.tool, h.supplied, h.ids, TRUE, h.fetches, resp, Settle(resp),
                    HandlerResult(h.tool, h.ids, Settle(resp)))
    /\ invoked' = NoInvoked
    /\ call' = NoCall
    /\ sent' = NoSent
    /\ sessionData' = IF h.tool = "login-user" /\ Settle(resp).threw
                      THEN [usr |-> DefaultUsr, pwd |-> DefaultPwd, bearerToken |-> NULL]
                      ELSE sessionData
    /\ UNCHANGED <<lastLogin, history, startup>>
    /\ reply' = NoReply

(***************************************************************************)
(* The answer to a request in flight arrives: the rest of makeWinCCRequest *)
(* (lines 160-198) and of the handler that awaited it.                     *)
(***************************************************************************)
ResponseArrives ==
  \E h \in BagToSet(inflight) : \E resp \in Responses :
    /\ inflight' = inflight (-) SetToBag({h})
    /\ done' = Done(h.tool, h.supplied, h.ids, TRUE, h.fetches, resp, Settle(resp),
                    HandlerResult(h.tool, h.ids, Settle(resp)))
    /\ invoked' = NoInvoked
    /\ call' = NoCall
    /\ sent' = NoSent
    /\ UNCHANGED <<sessionData, lastLogin, history, startup>>
    /\ reply' = NoReply

\* Every tool, one call at a time.
Next ==
  \/ RejectArguments(Calls, NoneInFlight)
  \/ HandlerThrows(Calls, NoneInFlight)
  \/ HandlerDispatches(Calls, NoneInFlight)
  \/ LoginUser(Calls, NoneInFlight)
  \/ ResponseArrives

Spec == Init /\ [][Next]_vars

\* Overlapping calls of the tools of ConcTools.
NextConc ==
  \/ RejectArguments(ConcCalls, RoomInFlight)
  \/ HandlerThrows(ConcCalls, RoomInFlight)
  \/ HandlerDispatches(ConcCalls, RoomInFlight)
  \/ LoginUser(ConcCalls, RoomInFlight)
  \/ ResponseArrives

SpecConc == Init /\ [][NextConc]_vars

(***************************************************************************)
(* SpecHttp: the other methods of the /mcp route, beside overlapping tool  *)
(* calls.  The route handlers write their answer and do nothing else.      *)
(***************************************************************************)
\* res.status(500).json({...}) of app.post's catch
InternalServerError == [status |-> 500, body |-> RpcText(RpcError(-32603, "Internal server error"))]

\* res.writeHead(405).end(JSON.stringify({...}))
MethodNotAllowed == [status |-> 405, body |-> RpcText(RpcError(-32000, "Method not allowed."))]

Answer(method, answer) ==
  [present |-> TRUE, method |-> method, status |-> answer.status, body |-> answer.body]

\* app.get('/mcp', ...)
McpGet ==
  /\ reply' = Answer("GET", MethodNotAllowed)
  /\ invoked' = NoInvoked
  /\ call' = NoCall
  /\ sent' = NoSent
  /\ done' = NoDone
  /\ UNCHANGED <<sessionData, inflight, lastLogin, history, startup>>

\* app.delete('/mcp', ...)
McpDelete ==
  /\ reply' = Answer("DELETE", MethodNotAllowed)
  /\ invoked' = NoInvoked
  /\ call' = NoCall
  /\ sent' = NoSent
  /\ done' = NoDone
  /\ UNCHANGED <<sessionData, inflight, lastLogin, history, startup>>

NextHttp ==
  \/ RejectArguments(ConcCalls, RoomInFlight)
  \/ HandlerThrows(ConcCalls, RoomInFlight)
  \/ HandlerDispatches(ConcCalls, RoomInFlight)
  \/ LoginUser(ConcCalls, RoomInFlight)
  \/ ResponseArrives
  \/ McpGet
  \/ McpDelete

SpecHttp == Init /\ [][NextHttp]_vars

(***************************************************************************)
(* SpecBuild: makeWinCCRequest as a function of its arguments and of the   *)
(* credential record, up to the call of fetch.  The arguments are those    *)
(* the tool handlers pass and those any other caller could pass.           *)
(***************************************************************************)
\* The credential records the program can hold: after startup, after a login.
SessionDatas ==
  {InitialSessionData(UNDEF, UNDEF, UNDEF, UNDEF, t, UNDEF) : t \in CliTokens}
  \cup {LoggedIn(StrA, StrB), LoggedIn(StrAColon, StrC)}

Methods == {"GET", "POST", "PUT", "DELETE"}

Bodies == {JsNull, JsObject("variableNames", <<StrA>>, <<>>), JsArray(<<>>)}

HeaderValues == {UNDEF, NULL, <<>>, StrEn, JsNumber(5), JsBoolean(FALSE)}

ExtraHeaderSets ==
  {NoHeaders}
  \cup {("Accept-Language" :> v) : v \in HeaderValues}
  \cup {("Accept-Language" :> v) @@ ("Content-Language" :> w) : v, w \in HeaderValues}
  \cup {("Accept" :> v) : v \in HeaderValues}
  \cup {("Content-Type" :> v) : v \in HeaderValues}

DirectCalls ==
  {CallOf(Call(Endpoint("/tagManagement/Values", <<>>, <<>>), m, b, x)) :
     m \in Methods, b \in Bodies, x \in ExtraHeaderSets}

ToolCalls == {c \in Calls : c.tool.kind # "login" /\ c.ok /\ ~c.plan.throws}

InitBuild ==
  /\ sessionData \in SessionDatas
  /\ \/ invoked = NoInvoked /\ call \in DirectCalls
     \/ \E c \in ToolCalls : invoked = Invoked(c) /\ call = CallOf(c.plan)
  /\ sent = NoSent
  /\ inflight = EmptyBag
  /\ done = NoDone
  /\ lastLogin = NoLogin
  /\ history = NoHistory
  /\ startup = Started
  /\ reply = NoReply

MakeWinCCRequest ==
  /\ call.present
  /\ ~sent.request.present
  /\ sent' = [by |-> "makeWinCCRequest",
              request |-> BuildRequest(sessionData, call.endpoint, call.method, call.body,
                                       call.extraHeaders)]
  /\ UNCHANGED <<sessionData, inflight, invoked, call, done, lastLogin, history, startup>>
  /\ reply' = NoReply

NextBuild == MakeWinCCRequest

SpecBuild == InitBuild /\ [][NextBuild]_vars

(***************************************************************************)
(* SpecRepeat: makeWinCCRequest called again and again with the same GET   *)
(* arguments, one call after the other, against a backend whose state, and *)
(* so its answer to this request, stays the same.                          *)
(***************************************************************************)
MaxRepeats == 3

GetCalls == {c \in DirectCalls : c.method = "GET"}

Run(request, answered, outcome) ==
  [request |-> request, answered |-> answered, outcome |-> outcome]

InitRepeat ==
  /\ sessionData \in SessionDatas
  /\ call \in GetCalls
  /\ \E resp \in Responses : history = [backend |-> resp, runs |-> <<>>]
  /\ invoked = NoInvoked
  /\ sent = NoSent
  /\ inflight = EmptyBag
  /\ done = NoDone
  /\ lastLogin = NoLogin
  /\ startup = Started
  /\ reply = NoReply

\* Lines 125-160, up to await fetch.
RepeatDispatch ==
  /\ inflight = EmptyBag
  /\ Len(history.runs) < MaxRepeats
  /\ sent' = [by |-> "makeWinCCRequest",
              request |-> BuildRequest(sessionData, call.endpoint, call.method, call.body,
                                       call.extraHeaders)]
  /\ inflight' = SetToBag({Suspended("makeWinCCRequest", {}, <<>>, 1,
                                     AuthorizationHeader(sent'.request), 0)})
  /\ history' = [history EXCEPT !.runs = Append(@, Run(sent'.request, FALSE, NoOutcome))]
  /\ done' = NoDone
  /\ UNCHANGED <<sessionData, invoked, call, lastLogin, startup>>
  /\ reply' = NoReply

\* A variant of RepeatAnswer the source does not have: the credentials are
\* dropped when the backend answers 401.
RepeatAnswerDropsCredentials ==
  \E h \in BagToSet(inflight) :
    /\ inflight' = inflight (-) SetToBag({h})
    /\ history' = [history EXCEPT !.runs[Len(history.runs)].answered = TRUE,
                                  !.runs[Len(history.runs)].outcome = Settle(history.backend)]
    /\ done' = Done(h.tool, h.supplied, h.ids, TRUE, h.fetches, history.backend,
                    Settle(history.backend), NoDone.result)
    /\ sent' = NoSent
    /\ sessionData' = IF history.backend.status = 401
                      THEN [usr |-> NULL, pwd |-> NULL, bearerToken |-> NULL]
                      ELSE sessionData
    /\ UNCHANGED <<invoked, call, lastLogin, startup>>
    /\ reply' = NoReply

\* Lines 160-198: the backend's answer arrives, makeWinCCRequest returns or
\* throws.
RepeatAnswer ==
  \E h \in BagToSet(inflight) :
    /\ inflight' = inflight (-) SetToBag({h})
    /\ history' = [history EXCEPT !.runs[Len(history.runs)].answered = TRUE,
                                  !.runs[Len(history.runs)].outcome = Settle(history.backend)]
    /\ done' = Done(h.tool, h.supplied, h.ids, TRUE, h.fetches, history.backend,
                    Settle(history.backend), NoDone.result)
    /\ sent' = NoSent
    /\ UNCHANGED <<sessionData, invoked, call, lastLogin, startup>>
    /\ reply' = NoReply

NextRepeat ==
  \/ RepeatDispatch
  \/ RepeatAnswer

SpecRepeat == InitRepeat /\ [][NextRepeat]_vars

(***************************************************************************)
(* SpecStartup: the module's top-level code from process.argv to           *)
(* app.listen.  startup holds the position (pc), the command line and the  *)
(* environment the process was started with, the parsed arguments, the     *)
(* configuration constants, PORT, the exit status (-1: not exited) and the *)
(* port the listener was opened with (0: none).                            *)
(***************************************************************************)
\* String.prototype.startsWith, indexOf (of one code unit, 0-based, -1 when
\* absent) and slice(from, to) with 0-based bounds.
StartsWith(s, p) == Len(s) >= Len(p) /\ SubSeq(s, 1, Len(p)) = p

IndexOf(s, c) ==
  IF \E i \in 1..Len(s) : s[i] = c
  THEN (CHOOSE i \in 1..Len(s) : s[i] = c /\ \A j \in 1..(i - 1) : s[j] # c) - 1
  ELSE -1

Slice(s, from, to) == SubSeq(s, from + 1, to)

DashDash == <<45, 45>>   \* "--"
Dash == <<45>>   \* "-"
HelpFlag == <<45, 45, 104, 101, 108, 112>>   \* "--help"
ShortHelpFlag == <<45, 104>>   \* "-h"
HelpKey == <<104, 101, 108, 112>>   \* "help"
StrTrue == <<116, 114, 117, 101>>   \* "true"
EqualsSign == 61

\* out[key] = val on the object parseArgs returns; out[key] of a key never
\* assigned is undefined.
Put(out, key, val) == [k \in DOMAIN out \cup {key} |-> IF k = key THEN val ELSE out[k]]

Arg(args, key) == IF key \in DOMAIN args THEN args[key] ELSE UNDEF

\* parseArgs, lines 18-44: the loop from index i (1-based here) on.
RECURSIVE parseArgsFrom(_, _, _)
parseArgsFrom(argv, i, out) ==
  IF i > Len(argv) THEN out
  ELSE LET a  == argv[i]
           eq == IndexOf(a, EqualsSign)
           next == IF i + 1 <= Len(argv) THEN argv[i + 1] ELSE UNDEF
       IN  IF a = HelpFlag \/ a = ShortHelpFlag
           THEN parseArgsFrom(argv, i + 1, Put(out, HelpKey, <<-4, 1>>))
           ELSE IF ~StartsWith(a, DashDash) THEN parseArgsFrom(argv, i + 1, out)
           ELSE IF eq # -1
           THEN parseArgsFrom(argv, i + 1, Put(out, Slice(a, 2, eq), Slice(a, eq + 1, Len(a))))
           ELSE IF Truthy(next) /\ ~StartsWith(next, Dash)
           THEN parseArgsFrom(argv, i + 2, Put(out, Slice(a, 2, Len(a)), next))
           ELSE parseArgsFrom(argv, i + 1, Put(out, Slice(a, 2, Len(a)), StrTrue))

parseArgs(argv) == parseArgsFrom(argv, 1, <<>>)

\* a ?? b of lines 107 and 110.
Coalesce(a, b) == IF a = UNDEF \/ a = NULL THEN b ELSE a

\* String(v).toLowerCase() of a string.
ToLowerCase(s) == [i \in 1..Len(s) |-> IF s[i] >= 65 /\ s[i] <= 90 THEN s[i] + 32 ELSE s[i]]

TrueWords  == {<<49>>, <<116, 114, 117, 101>>, <<121, 101, 115>>, <<121>>, <<111, 110>>}
FalseWords == {<<48>>, <<102, 97, 108, 115, 101>>, <<110, 111>>, <<110>>, <<111, 102, 102>>}

\* parseBoolean, lines 46-52.
parseBoolean(v, defaultVal) ==
  IF v = UNDEF \/ v = NULL THEN defaultVal
  ELSE IF ToLowerCase(v) \in TrueWords THEN TRUE
  ELSE IF ToLowerCase(v) \in FalseWords THEN FALSE
  ELSE defaultVal

(***************************************************************************)
(* Number(string), line 1241: white space trimmed, the empty string is 0,  *)
(* an optionally signed decimal literal with an optional fraction is its   *)
(* value, anything else NaN.  frac tells a fraction that is not zero; val  *)
(* is the integer part.  Hexadecimal, octal and binary literals, exponents *)
(* and "Infinity" are not in the strings used here.                        *)
(***************************************************************************)
IsWhiteSpace(c) == c \in {9, 10, 11, 12, 13, 32, 160}

RECURSIVE Trim(_)
Trim(s) ==
  IF s = <<>> THEN s
  ELSE IF IsWhiteSpace(s[1]) THEN Trim(Tail(s))
  ELSE IF IsWhiteSpace(s[Len(s)]) THEN Trim(SubSeq(s, 1, Len(s) - 1))
  ELSE s

AllDigits(s) == \A i \in 1..Len(s) : s[i] >= 48 /\ s[i] <= 57

RECURSIVE DigitsValue(_)
DigitsValue(s) ==
  IF s = <<>> THEN 0 ELSE 10 * DigitsValue(SubSeq(s, 1, Len(s) - 1)) + (s[Len(s)] - 48)

NaN == [nan |-> TRUE, frac |-> FALSE, val |-> 0]

NumberOf(s) ==
  LET t    == Trim(s)
      neg  == t # <<>> /\ t[1] = 45
      u    == IF t # <<>> /\ t[1] \in {43, 45} THEN Tail(t) ELSE t
      dot  == IndexOf(u, 46)
      ip   == IF dot = -1 THEN u ELSE Slice(u, 0, dot)
      fp   == IF dot = -1 THEN <<>> ELSE Slice(u, dot + 1, Len(u))
  IN  IF t = <<>> THEN [nan |-> FALSE, frac |-> FALSE, val |-> 0]
      ELSE IF ~(AllDigits(ip) /\ AllDigits(fp) /\ Len(ip) + Len(fp) >= 1) THEN NaN
      ELSE [nan  |-> FALSE,
            frac |-> \E i \in 1..Len(fp) : fp[i] # 48,
            val  |-> IF neg THEN 0 - DigitsValue(ip) ELSE DigitsValue(ip)]

\* Number.isInteger(n)
NumberIsInteger(n) == ~n.nan /\ ~n.frac

DefaultPort == 3000
MaxPort     == 65535

\* Line 1242, negated: the port passes the check.  ValidPortUnbounded is a
\* variant without the upper bound.
ValidPortUnbounded(n) == NumberIsInteger(n) /\ ~(n.val < 1)

ValidPort(n) == NumberIsInteger(n) /\ ~(n.val < 1) /\ ~(n.val > MaxPort)

\* process.env: the variables the module reads, undefined when not set.
Env(port, url, usr, pwd, token, origin, skip, debug) ==
  [PORT |-> port, WINCC_URL |-> url, WINCC_USR |-> usr, WINCC_PWD |-> pwd,
   WINCC_BEARER_TOKEN |-> token, WINCC_ALLOW_ORIGIN |-> origin,
   WINCC_SKIP_CERTIFICATE_VALIDATION |-> skip, DEBUG |-> debug]

\* `https://${hostname}:34569/WinCCRestService` on the host "h".
DefaultUrl == <<104, 116, 116, 112, 115, 58, 47, 47, 104, 58, 51, 52, 53, 54, 57, 47, 87, 105, 110, 67, 67, 82, 101, 115, 116, 83, 101, 114, 118, 105, 99, 101>>   \* "https://h:34569/WinCCRestService"

KeyPort == <<112, 111, 114, 116>>   \* "port"
KeyUrl == <<119, 105, 110, 99, 99, 45, 117, 114, 108>>   \* "wincc-url"
KeyUsr == <<119, 105, 110, 99, 99, 45, 117, 115, 114>>   \* "wincc-usr"
KeyPwd == <<119, 105, 110, 99, 99, 45, 112, 119, 100>>   \* "wincc-pwd"
KeyToken == <<119, 105, 110, 99, 99, 45, 98, 101, 97, 114, 101, 114, 45, 116, 111, 107, 101, 110>>   \* "wincc-bearer-token"
KeyOrigin == <<119, 105, 110, 99, 99, 45, 97, 108, 108, 111, 119, 45, 111, 114, 105, 103, 105, 110>>   \* "wincc-allow-origin"
KeySkip == <<119, 105, 110, 99, 99, 45, 115, 107, 105, 112, 45, 99, 101, 114, 116, 105, 102, 105, 99, 97, 116, 101, 45, 118, 97, 108, 105, 100, 97, 116, 105, 111, 110>>   \* "wincc-skip-certificate-validation"
KeyDebug == <<100, 101, 98, 117, 103>>   \* "debug"

\* Lines 101-110.
Configuration(args, env) ==
  [WINCC_URL          |-> ConfigValue(Arg(args, KeyUrl), env.WINCC_URL, DefaultUrl),
   WINCC_USR          |-> ConfigValue(Arg(args, KeyUsr), env.WINCC_USR, DefaultUsr),
   WINCC_PWD          |-> ConfigValue(Arg(args, KeyPwd), env.WINCC_PWD, DefaultPwd),
   WINCC_BEARER_TOKEN |-> ConfigValue(Arg(args, KeyToken), env.WINCC_BEARER_TOKEN, NULL),
   WINCC_ALLOW_ORIGIN |-> ConfigValue(Arg(args, KeyOrigin), env.WINCC_ALLOW_ORIGIN, NULL),
   WINCC_SKIP_CERT_VALIDATION |->
     parseBoolean(Coalesce(Arg(args, KeySkip), env.WINCC_SKIP_CERTIFICATE_VALIDATION), FALSE),
   DEBUG              |-> parseBoolean(Coalesce(Arg(args, KeyDebug), env.DEBUG), FALSE)]

NoConfiguration ==
  [WINCC_URL |-> UNDEF, WINCC_USR |-> UNDEF, WINCC_PWD |-> UNDEF, WINCC_BEARER_TOKEN |-> UNDEF,
   WINCC_ALLOW_ORIGIN |-> UNDEF, WINCC_SKIP_CERT_VALIDATION |-> FALSE, DEBUG |-> FALSE]

\* sessionData before line 118 has run.
NoSessionData == [usr |-> UNDEF, pwd |-> UNDEF, bearerToken |-> UNDEF]

\* const parsedPort = args.port || process.env.PORT
ParsedPort(args, env) == OrElse(Arg(args, KeyPort), env.PORT)

\* The command lines and environments the process is started with.
MaxArgs == 2

Tokens ==
  {
    <<45, 45, 112, 111, 114, 116>>,   \* "--port"
    <<45, 45, 112, 111, 114, 116, 61>>,   \* "--port="
    <<45, 45, 112, 111, 114, 116, 61, 56, 48, 56, 48>>,   \* "--port=8080"
    <<45, 45, 112, 111, 114, 116, 61, 54, 53, 53, 51, 54>>,   \* "--port=65536"
    <<45, 45, 112, 111, 114, 116, 61, 56, 48, 46, 53>>,   \* "--port=80.5"
    <<56, 48, 56, 48>>,   \* "8080"
    <<45, 49>>,   \* "-1"
    <<>>,   \* ""
    <<45, 45, 119, 105, 110, 99, 99, 45, 117, 114, 108, 61, 117>>,   \* "--wincc-url=u"
    <<45, 45, 119, 105, 110, 99, 99, 45, 117, 115, 114, 61>>,   \* "--wincc-usr="
    <<45, 45, 119, 105, 110, 99, 99, 45, 117, 115, 114, 61, 117>>,   \* "--wincc-usr=u"
    <<45, 45, 119, 105, 110, 99, 99, 45, 112, 119, 100, 61, 112>>,   \* "--wincc-pwd=p"
    <<45, 45, 119, 105, 110, 99, 99, 45, 112, 119, 100, 61, 112, 97, 115, 115>>,   \* "--wincc-pwd=pass"
    <<45, 45, 119, 105, 110, 99, 99, 45, 98, 101, 97, 114, 101, 114, 45, 116, 111, 107, 101, 110, 61, 116, 111, 107, 101, 110, 116, 111, 107, 101, 110>>,   \* "--wincc-bearer-token=tokentoken"
    <<45, 45, 119, 105, 110, 99, 99, 45, 98, 101, 97, 114, 101, 114, 45, 116, 111, 107, 101, 110, 61>>,   \* "--wincc-bearer-token="
    <<45, 45, 119, 105, 110, 99, 99, 45, 98, 101, 97, 114, 101, 114, 45, 116, 111, 107, 101, 110, 61, 116>>,   \* "--wincc-bearer-token=t"
    <<45, 45, 119, 105, 110, 99, 99, 45, 97, 108, 108, 111, 119, 45, 111, 114, 105, 103, 105, 110, 61, 42>>,   \* "--wincc-allow-origin=*"
    <<45, 45, 119, 105, 110, 99, 99, 45, 115, 107, 105, 112, 45, 99, 101, 114, 116, 105, 102, 105, 99, 97, 116, 101, 45, 118, 97, 108, 105, 100, 97, 116, 105, 111, 110>>,   \* "--wincc-skip-certificate-validation"
    <<45, 45, 100, 101, 98, 117, 103>>,   \* "--debug"
    <<45, 45, 100, 101, 98, 117, 103, 61, 102, 97, 108, 115, 101>>,   \* "--debug=false"
    <<45, 45, 104, 101, 108, 112>>,   \* "--help"
    <<45, 104>>,   \* "-h"
    <<120>>    \* "x"
  }

Argvs == UNION {[1..n -> Tokens] : n \in 0..MaxArgs}

Envs ==
  {
    Env(UNDEF, UNDEF, UNDEF, UNDEF, UNDEF, UNDEF, UNDEF, UNDEF),   \* nothing set
    Env(<<51, 48, 48, 49>>, <<101>>, <<101>>, <<101>>, <<101>>, <<101>>, <<116, 114, 117, 101>>, <<49>>),   \* PORT=3001, the five strings "e", skip "true", DEBUG "1"
    Env(<<>>, UNDEF, UNDEF, UNDEF, UNDEF, UNDEF, UNDEF, UNDEF),   \* PORT set to the empty string
    Env(<<97, 98, 99>>, UNDEF, UNDEF, UNDEF, UNDEF, UNDEF, UNDEF, UNDEF),   \* PORT=abc
    Env(<<48>>, UNDEF, UNDEF, UNDEF, UNDEF, UNDEF, UNDEF, UNDEF),   \* PORT=0
    Env(<<54, 53, 53, 51, 53>>, UNDEF, UNDEF, UNDEF, UNDEF, UNDEF, UNDEF, <<109, 97, 121, 98, 101>>),   \* PORT=65535, DEBUG=maybe
    Env(<<32, 56, 48, 32>>, UNDEF, <<>>, UNDEF, UNDEF, UNDEF, UNDEF, UNDEF)    \* PORT=" 80 ", WINCC_USR set to the empty string
  }

\* String.prototype.slice(-n): the last n code units, the whole string when
\* it has no more than n.
SliceLast(s, n) == SubSeq(s, (IF Len(s) > n THEN Len(s) - n ELSE 0) + 1, Len(s))

Stars == <<42, 42, 42>>   \* "***"
NotSet == <<40, 110, 111, 116, 32, 115, 101, 116, 41>>   \* "(not set)"

\* WINCC_PWD ? '***' + WINCC_PWD.slice(-3) : '(not set)'
\* WINCC_BEARER_TOKEN ? '***' + WINCC_BEARER_TOKEN.slice(-8) : '(not set)'
Redacted(secret, n) == IF Truthy(secret) THEN Stars \o SliceLast(secret, n) ELSE NotSet

\* The lines of the printout that show a credential, without their labels.
NoPrintout == [present |-> FALSE, username |-> UNDEF, password |-> UNDEF, token |-> UNDEF]

Printout(config) ==
  [present  |-> TRUE,
   username |-> config.WINCC_USR,
   password |-> Redacted(config.WINCC_PWD, 3),
   token    |-> Redacted(config.WINCC_BEARER_TOKEN, 8)]

Process(pc, argv, env, args, config, port, status, listen) ==
  [pc |-> pc, argv |-> argv, env |-> env, args |-> args, config |-> config, PORT |-> port,
   status |-> status, listen |-> listen, printed |-> NoPrintout]

InitStartup ==
  /\ \E argv \in Argvs, env \in Envs :
       startup = Process("start", argv, env, <<>>, NoConfiguration, DefaultPort, -1, 0)
  /\ reply = NoReply
  /\ sessionData = NoSessionData
  /\ inflight = EmptyBag
  /\ invoked = NoInvoked
  /\ call = NoCall
  /\ sent = NoSent
  /\ done = NoDone
  /\ lastLogin = NoLogin
  /\ history = NoHistory

\* Line 87.
ParseArguments ==
  /\ startup.pc = "start"
  /\ startup' = [startup EXCEPT !.pc = "parsed", !.args = parseArgs(startup.argv)]
  /\ UNCHANGED <<sessionData, inflight, invoked, call, sent, done, lastLogin, history>>
  /\ reply' = NoReply

\* Lines 88-91.
PrintHelpAndExit ==
  /\ startup.pc = "parsed"
  /\ Truthy(Arg(startup.args, HelpKey))
  /\ startup' = [startup EXCEPT !.pc = "exited", !.status = 0]
  /\ UNCHANGED <<sessionData, inflight, invoked, call, sent, done, lastLogin, history>>
  /\ reply' = NoReply

\* Lines 101-122.
Configure ==
  /\ startup.pc = "parsed"
  /\ ~Truthy(Arg(startup.args, HelpKey))
  /\ startup' = [startup EXCEPT !.pc = "configured",
                                !.config = Configuration(startup.args, startup.env)]
  /\ sessionData' = [usr         |-> startup'.config.WINCC_USR,
                     pwd         |-> startup'.config.WINCC_PWD,
                     bearerToken |-> startup'.config.WINCC_BEARER_TOKEN]
  /\ UNCHANGED <<inflight, invoked, call, sent, done, lastLogin, history>>
  /\ reply' = NoReply

\* Lines 1239-1246: console.error and process.exit(1).
RejectPort ==
  /\ startup.pc = "configured"
  /\ ParsedPort(startup.args, startup.env) # UNDEF
  /\ ~ValidPort(NumberOf(ParsedPort(startup.args, startup.env)))
  /\ startup' = [startup EXCEPT !.pc = "exited", !.status = 1]
  /\ UNCHANGED <<sessionData, inflight, invoked, call, sent, done, lastLogin, history>>
  /\ reply' = NoReply

\* Lines 1239-1248: PORT stays 3000 or becomes n.
AcceptPort ==
  /\ startup.pc = "configured"
  /\ IF ParsedPort(startup.args, startup.env) = UNDEF
     THEN startup' = [startup EXCEPT !.pc = "validated"]
     ELSE /\ ValidPort(NumberOf(ParsedPort(startup.args, startup.env)))
          /\ startup' = [startup EXCEPT
                           !.pc = "validated",
                           !.PORT = NumberOf(ParsedPort(startup.args, startup.env)).val]
  /\ UNCHANGED <<sessionData, inflight, invoked, call, sent, done, lastLogin, history>>
  /\ reply' = NoReply

\* Lines 1250-1261.
PrintConfiguration ==
  /\ startup.pc = "validated"
  /\ startup' = [startup EXCEPT !.pc = "printed", !.printed = Printout(startup.config)]
  /\ UNCHANGED <<sessionData, inflight, invoked, call, sent, done, lastLogin, history>>
  /\ reply' = NoReply

\* Lines 1263-1266.
Listen ==
  /\ startup.pc = "printed"
  /\ startup' = [startup EXCEPT !.pc = "listening", !.listen = startup.PORT]
  /\ UNCHANGED <<sessionData, inflight, invoked, call, sent, done, lastLogin, history>>
  /\ reply' = NoReply

NextStartup ==
  \/ ParseArguments
  \/ PrintHelpAndExit
  \/ Configure
  \/ RejectPort
  \/ AcceptPort
  \/ PrintConfiguration
  \/ Listen

SpecStartup == InitStartup /\ [][NextStartup]_vars

(***************************************************************************)
(* SpecPath: the handlers that put an identifier into the path, up to      *)
(* fetch(url, options), and the request target fetch derives from the url. *)
(* fetch parses its url as the URL standard prescribes: the fragment       *)
(* starts at the first "#", the query at the first "?" before it, the path *)
(* is cut at "/" and its "." and ".." segments are resolved.               *)
(***************************************************************************)
\* The literal pieces of an endpoint template, around its "{}" places.
TemplatePieces(path) ==
  CASE path = "/tagManagement/Value/{}" ->
         <<<<47, 116, 97, 103, 77, 97, 110, 97, 103, 101, 109, 101, 110, 116, 47, 86, 97, 108, 117, 101, 47>>, <<>>>>
    [] path = "/tagLogging/Archive/{}/Variable/{}" ->
         <<<<47, 116, 97, 103, 76, 111, 103, 103, 105, 110, 103, 47, 65, 114, 99, 104, 105, 118, 101, 47>>,
           <<47, 86, 97, 114, 105, 97, 98, 108, 101, 47>>, <<>>>>
    [] path = "/tagLogging/Archive/{}/Variables" ->
         <<<<47, 116, 97, 103, 76, 111, 103, 103, 105, 110, 103, 47, 65, 114, 99, 104, 105, 118, 101, 47>>,
           <<47, 86, 97, 114, 105, 97, 98, 108, 101, 115>>>>

\* The endpoint as the string the template literal evaluates to.
EndpointString(endpoint) ==
  Flatten([i \in 1..(2 * Len(endpoint.ids) + 1) |->
             IF i % 2 = 1 THEN TemplatePieces(endpoint.path)[(i + 1) \div 2]
             ELSE endpoint.ids[i \div 2]])

\* String.prototype.split at one code unit.
RECURSIVE SplitAt(_, _)
SplitAt(s, c) ==
  IF IndexOf(s, c) = -1 THEN <<s>>
  ELSE <<Slice(s, 0, IndexOf(s, c))>> \o SplitAt(Slice(s, IndexOf(s, c) + 1, Len(s)), c)

\* URL standard: single-dot and double-dot path segments ("%2e" counts as a dot).
DotWords    == {<<46>>, <<37, 50, 101>>}
DotDotWords == {<<46, 46>>, <<46, 37, 50, 101>>, <<37, 50, 101, 46>>, <<37, 50, 101, 37, 50, 101>>}

RECURSIVE ResolveDots(_, _)
ResolveDots(segments, out) ==
  IF segments = <<>> THEN out
  ELSE IF ToLowerCase(Head(segments)) \in DotDotWords
  THEN ResolveDots(Tail(segments),
                   (IF out = <<>> THEN out ELSE SubSeq(out, 1, Len(out) - 1))
                     \o (IF Len(segments) = 1 THEN <<<<>>>> ELSE <<>>))
  ELSE IF ToLowerCase(Head(segments)) \in DotWords
  THEN ResolveDots(Tail(segments), out \o (IF Len(segments) = 1 THEN <<<<>>>> ELSE <<>>))
  ELSE ResolveDots(Tail(segments), Append(out, Head(segments)))

\* What fetch makes of `${WINCC_URL}${endpoint}`, WINCC_URL being a base
\* with the path base: the segments of the path, the query and the fragment
\* (UNDEF: none).
RequestTarget(base, endpoint) ==
  LET hash   == IndexOf(endpoint, 35)
      noHash == IF hash = -1 THEN endpoint ELSE Slice(endpoint, 0, hash)
      mark   == IndexOf(noHash, 63)
      path   == IF mark = -1 THEN noHash ELSE Slice(noHash, 0, mark)
  IN  [segments |-> ResolveDots(base \o Tail(SplitAt(path, 47)), <<>>),
       query    |-> IF mark = -1 THEN UNDEF ELSE Slice(noHash, mark + 1, Len(noHash)),
       fragment |-> IF hash = -1 THEN UNDEF ELSE Slice(endpoint, hash + 1, Len(endpoint))]

\* The path of the default WINCC_URL: /WinCCRestService.
BasePath == <<<<87, 105, 110, 67, 67, 82, 101, 115, 116, 83, 101, 114, 118, 105, 99, 101>>>>

\* The identifiers tried: every string of 1..MaxIdLen code units out of
\* "/", " ", "?", "#", "%", ".", "a" and U+00E9.
MaxIdLen == 2

PathAlphabet == {47, 32, 63, 35, 37, 46, 97, 233}

PathIdents == UNION {[1..n -> PathAlphabet] : n \in 1..MaxIdLen}

PathCalls ==
  {Invocation(t, [NoArgs EXCEPT !.id1 = i]) :
      t \in {u \in Tools : u.name \in {"wincc-get-tag-value", "wincc-get-archive-variables"}},
      i \in PathIdents}
  \cup {Invocation(t, [NoArgs EXCEPT !.id1 = i, !.id2 = j]) :
          t \in {u \in Tools : u.name = "wincc-get-archive-variable"},
          i \in PathIdents, j \in {StrA, StrSlash}}

InitPath ==
  /\ sessionData \in SessionDatas
  /\ \E c \in PathCalls : invoked = Invoked(c) /\ call = CallOf(c.plan)
  /\ sent = NoSent
  /\ inflight = EmptyBag
  /\ done = NoDone
  /\ lastLogin = NoLogin
  /\ history = NoHistory
  /\ startup = Started
  /\ reply = NoReply

NextPath == MakeWinCCRequest

SpecPath == InitPath /\ [][NextPath]_vars

(***************************************************************************)
(* Properties.                                                             *)
(***************************************************************************)
\* The value of a header of a request; UNDEF when the request has none.
HeaderOf(request, name) ==
  IF name \in DOMAIN request.headers THEN request.headers[name] ELSE UNDEF

\* A credential field or an argument that is not set.
Unset == {UNDEF, NULL, <<>>}

\* The result a handler returns for an error: one text item, the tool's
\* error text with the error's message in it.
ErrorText(tool, ids, error) ==
  [escaped |-> FALSE,
   content |-> <<[type |-> "text",
                  text |-> [tool |-> tool, ok |-> FALSE, ids |-> ids, error |-> error,
                            data |-> NoData]]>>]

(***************************************************************************)
(* The declared constraints of the tools, read off the schemas (and the    *)
(* one check a handler makes itself, lines 630-636).                       *)
(***************************************************************************)
RequiredStrings(tool, args) ==
  CASE tool.kind = "login" -> {args.username, args.password}
    [] tool.kind \in {"ident1", "aident1", "alist", "identpaged", "writetag"} -> {args.id1}
    [] tool.kind = "ident2" -> {args.id1, args.id2}
    [] OTHER -> {}

FailsDeclaredConstraint(tool, args) ==
  \/ \E s \in RequiredStrings(tool, args) : s \in Unset
  \/ tool.kind = "tagvalues" /\ args.names \in {UndefList, <<>>}
  \/ tool.kind = "writetags" /\ args.items \in {UndefItems, <<>>}
  \/ tool.kind = "writetag" /\ args.value = UNDEF
  \/ tool.kind = "amessage" /\ args.id1 = UNDEF /\ args.number = NoNumber
  \/ tool.kind = "archvalues" /\ args.names = UndefList /\ args.items = UndefItems

\* The identifiers a tool puts into the path of its endpoint.
PathIdentifiers(tool, args) ==
  CASE tool.kind \in {"ident1", "aident1", "alist", "identpaged", "writetag"} -> {args.id1}
    [] tool.kind = "ident2" -> {args.id1, args.id2}
    [] tool.kind = "structvars" -> IF args.id1 \in Unset THEN {} ELSE {args.id1}
    [] tool.kind = "amessage" -> IF args.number = NoNumber THEN {args.id1} ELSE {}
    [] OTHER -> {}

\* A string without a surrogate code unit: encodeURIComponent accepts it.
WellFormed(s) == \A i \in 1..Len(s) : s[i] < 55296 \/ s[i] > 57343

(***************************************************************************)
(* Reading a Basic Authorization value as its receiver does (RFC 7617):    *)
(* base64 to bytes, UTF-8 to text, user-id up to the first colon.          *)
(***************************************************************************)
B64Index(c) ==
  IF c >= 65 /\ c <= 90 THEN c - 65
  ELSE IF c >= 97 /\ c <= 122 THEN c - 71
  ELSE IF c >= 48 /\ c <= 57 THEN c + 4
  ELSE IF c = 43 THEN 62 ELSE 63

RECURSIVE Base64Decode(_)
Base64Decode(t) ==
  IF Len(t) < 4 THEN <<>>
  ELSE LET a == B64Index(t[1])
           b == B64Index(t[2])
           c == B64Index(t[3])
           d == B64Index(t[4])
       IN  (IF t[3] = B64Pad THEN <<a * 4 + (b \div 16)>>
            ELSE IF t[4] = B64Pad THEN <<a * 4 + (b \div 16), (b % 16) * 16 + (c \div 4)>>
            ELSE <<a * 4 + (b \div 16), (b % 16) * 16 + (c \div 4), (c % 4) * 64 + d>>)
           \o Base64Decode(SubSeq(t, 5, Len(t)))

RECURSIVE Utf8Decode(_)
Utf8Decode(b) ==
  IF b = <<>> THEN <<>>
  ELSE IF b[1] < 128 THEN <<b[1]>> \o Utf8Decode(Tail(b))
  ELSE IF b[1] < 224 /\ Len(b) >= 2
  THEN <<(b[1] - 192) * 64 + (b[2] - 128)>> \o Utf8Decode(SubSeq(b, 3, Len(b)))
  ELSE IF Len(b) >= 3
  THEN <<(b[1] - 224) * 4096 + (b[2] - 128) * 64 + (b[3] - 128)>>
       \o Utf8Decode(SubSeq(b, 4, Len(b)))
  ELSE <<65533>>

\* decodeURIComponent: percent-decoding to bytes, the bytes read as UTF-8.
HexValue(c) == IF c >= 48 /\ c <= 57 THEN c - 48 ELSE IF c >= 97 THEN c - 87 ELSE c - 55

RECURSIVE PctDecode(_)
PctDecode(s) ==
  IF s = <<>> THEN <<>>
  ELSE IF s[1] = 37 /\ Len(s) >= 3
  THEN <<16 * HexValue(s[2]) + HexValue(s[3])>> \o PctDecode(SubSeq(s, 4, Len(s)))
  ELSE <<s[1]>> \o PctDecode(Tail(s))

decodeURIComponent(s) == Utf8Decode(PctDecode(s))

SplitAtFirstColon(s) ==
  IF \A i \in 1..Len(s) : s[i] # Colon THEN <<s, UNDEF>>
  ELSE LET i == CHOOSE i \in 1..Len(s) : s[i] = Colon /\ \A j \in 1..(i - 1) : s[j] # Colon
       IN  <<SubSeq(s, 1, i - 1), SubSeq(s, i + 1, Len(s))>>

DecodeBasic(v) ==
  IF Len(v) >= Len(BasicPrefix) /\ SubSeq(v, 1, Len(BasicPrefix)) = BasicPrefix
  THEN SplitAtFirstColon(Utf8Decode(Base64Decode(SubSeq(v, Len(BasicPrefix) + 1, Len(v)))))
  ELSE <<UNDEF, UNDEF>>

(***************************************************************************)
(* C1: every request handed to fetch carries the Authorization header      *)
(* chosen by precedence on the credential record as it is when the request *)
(* is built: "Bearer <token>" if a bearer token is set, whatever username  *)
(* and password are stored; else "Basic <base64(username:password)>" if    *)
(* both are set; else no Authorization header.                             *)
(***************************************************************************)
C1_AuthorizationByPrecedence ==
  sent.request.present =>
    IF sessionData.bearerToken \notin Unset
    THEN HeaderOf(sent.request, "Authorization") = BearerPrefix \o sessionData.bearerToken
    ELSE IF sessionData.usr \notin Unset /\ sessionData.pwd \notin Unset
    THEN HeaderOf(sent.request, "Authorization")
           = BasicPrefix \o Base64(Utf8(sessionData.usr \o <<58>> \o sessionData.pwd))
    ELSE "Authorization" \notin DOMAIN sent.request.headers

\* A request built while a startup bearer token "t" and the default
\* username and password are stored: it carries "Bearer t".
C1_BearerOverStoredPair ==
  /\ sent.request.present
  /\ sessionData = [usr |-> DefaultUsr, pwd |-> DefaultPwd, bearerToken |-> StrTok]
  /\ HeaderOf(sent.request, "Authorization") = <<66, 101, 97, 114, 101, 114, 32, 116>>

(***************************************************************************)
(* C2: after login-user(username, password) with non-empty arguments the   *)
(* credential record holds that username and password and no bearer token, *)
(* and every request built afterwards (no other login in between) carries  *)
(* a Basic Authorization value that decodes to exactly that pair.          *)
(***************************************************************************)
C2_LoginSetsBasicPair ==
  lastLogin.set =>
    /\ sessionData = [usr |-> lastLogin.username, pwd |-> lastLogin.password,
                      bearerToken |-> NULL]
    /\ sent.request.present =>
         DecodeBasic(HeaderOf(sent.request, "Authorization"))
           = <<lastLogin.username, lastLogin.password>>

(***************************************************************************)
(* C3: a step that is not a call of login-user (another tool's call, the   *)
(* arrival of any answer: success, 401, transport failure) leaves the      *)
(* credential record as it was.                                            *)
(***************************************************************************)
C3_OnlyLoginMutatesCredentials ==
  [][(~invoked'.present \/ invoked'.tool.name # "login-user") => sessionData' = sessionData]_vars

\* A read of a tag value answered 401 after a login as ("a", "b"): the
\* record still holds that login.
C3_Rejected401KeepsCredentials ==
  /\ done.present
  /\ done.tool = "wincc-get-tag-value"
  /\ done.response.status = 401
  /\ lastLogin.set
  /\ sessionData = [usr |-> StrA, pwd |-> StrB, bearerToken |-> NULL]

(***************************************************************************)
(* C4: every handler that ran returns a normal MCP result with exactly one *)
(* text item that describes the outcome (the tool's success text when the  *)
(* request succeeded, its error text with the error otherwise); nothing is *)
(* thrown out of a handler.                                                *)
(***************************************************************************)
C4_HandlerIsErrorBoundary ==
  (done.present /\ done.accepted) =>
    /\ ~done.result.escaped
    /\ Len(done.result.content) = 1
    /\ done.result.content[1].type = "text"
    /\ done.result.content[1].text.tool = done.tool
    /\ done.result.content[1].text.ok = (done.fetches = 1 /\ ~done.outcome.threw)
    /\ ~done.result.content[1].text.ok => done.result.content[1].text.error # NoErr

\* wincc-get-archive-values called with neither variableNames nor archives:
\* the handler's own check fails and its error text is returned.
C4_ArgumentCheckReturnsText ==
  /\ done.present
  /\ done.accepted
  /\ done.tool = "wincc-get-archive-values"
  /\ done.fetches = 0
  /\ done.result = ErrorText("wincc-get-archive-values", <<>>, NeitherErr)

(***************************************************************************)
(* C5: an answer with a status outside 200..299 makes makeWinCCRequest     *)
(* throw an error whose message is "HTTP <status>: <statusText>" with the  *)
(* answer's status and status text, and response.json() is not called.     *)
(***************************************************************************)
C5_NonSuccessStatusThrows ==
  (done.present /\ done.response.kind = "http"
     /\ (done.response.status < 200 \/ done.response.status > 299)) =>
    /\ done.outcome.threw
    /\ done.outcome.error = [fmt |-> "HTTP {status}: {statusText}",
                             status |-> done.response.status,
                             statusText |-> done.response.statusText]
    /\ ~done.outcome.parsed

\* A 401 answer with a JSON body: the error is "HTTP 401: Unauthorized".
C5_Unauthorized401 ==
  /\ done.present
  /\ done.response.status = 401
  /\ done.response.json
  /\ done.outcome.error = [fmt |-> "HTTP {status}: {statusText}", status |-> 401,
                           statusText |-> "Unauthorized"]
  /\ ~done.outcome.parsed

(***************************************************************************)
(* C6.  A tool call hands at most one request to fetch; a request is only  *)
(* handed to fetch in the step that receives the call, never when an       *)
(* answer (a failure included) arrives.                                    *)
(***************************************************************************)
AtMostOneRequestNoRetry ==
  /\ \A h \in BagToSet(inflight) : h.fetches = 1
  /\ done.present => (done.fetches <= 1 /\ ~sent.request.present)
  /\ sent.request.present => (invoked.present /\ sent.by = invoked.tool.name)
  /\ (invoked.present /\ FailsDeclaredConstraint(invoked.tool, invoked.args)) =>
       ~sent.request.present

(***************************************************************************)
(* C6 as stated: at most one request per tool call, none re-issued, and    *)
(* exactly one whenever the arguments pass validation.                     *)
(***************************************************************************)
C6_ExactlyOneWhenValid ==
  /\ AtMostOneRequestNoRetry
  /\ (invoked.present /\ ~FailsDeclaredConstraint(invoked.tool, invoked.args)) =>
       sent.request.present

(***************************************************************************)
(* C6, amended: at most one request per tool call, none re-issued, and     *)
(* exactly one whenever the arguments pass validation and every identifier *)
(* the tool puts into the path is a well-formed string (no lone            *)
(* surrogate).                                                             *)
(***************************************************************************)
C6_ExactlyOneWhenValidAndEncodable ==
  /\ AtMostOneRequestNoRetry
  /\ (invoked.present /\ ~FailsDeclaredConstraint(invoked.tool, invoked.args)
        /\ \A s \in PathIdentifiers(invoked.tool, invoked.args) : WellFormed(s)) =>
       sent.request.present

\* A call of wincc-get-connection("a") whose request failed at transport
\* level completes after its one request; nothing is sent again.
C6_FailedRequestNotReissued ==
  /\ done.present
  /\ done.tool = "wincc-get-connection"
  /\ done.response.kind = "neterr"
  /\ done.fetches = 1
  /\ ~sent.request.present
  /\ inflight = EmptyBag

(***************************************************************************)
(* C7: makeWinCCRequest attaches a body only when the method is POST or    *)
(* PUT; with GET (or any other method) the request has no body, whatever   *)
(* body argument is passed.                                                *)
(***************************************************************************)
C7_BodyOnlyForPostOrPut ==
  (sent.request.present /\ call.present) =>
    /\ sent.request.body.t # "none" => call.method \in {"POST", "PUT"}
    /\ call.method = "GET" => sent.request.body.t = "none"

\* makeWinCCRequest(endpoint, 'GET', {variableNames: ["a"]}): no body.
C7_GetWithBodyArgument ==
  /\ sent.request.present
  /\ call.method = "GET"
  /\ call.body.t = "object"
  /\ sent.request.body.t = "none"

(***************************************************************************)
(* C8: an extra header whose value is '', undefined or null is not put     *)
(* into the request (a header makeWinCCRequest sets itself keeps its own   *)
(* value); an alarm tool called without acceptLanguage / contentLanguage   *)
(* sends no Accept-Language / Content-Language header.                     *)
(***************************************************************************)
C8_EmptyExtraHeadersDropped ==
  (sent.request.present /\ call.present) =>
    /\ \A k \in DOMAIN call.extraHeaders :
         call.extraHeaders[k] \in Unset =>
           IF k \in {"Content-Type", "Accept"}
           THEN sent.request.headers[k] = AppJson
           ELSE k \notin DOMAIN sent.request.headers
    /\ (invoked.present /\ invoked.args.acceptLanguage \in Unset) =>
         "Accept-Language" \notin DOMAIN sent.request.headers
    /\ (invoked.present /\ invoked.args.contentLanguage \in Unset) =>
         "Content-Language" \notin DOMAIN sent.request.headers

\* extraHeaders = {'Accept-Language': '', 'Content-Language': 'en'}: only
\* Content-Language is sent.
C8_EmptyAcceptLanguageDropped ==
  /\ sent.request.present
  /\ "Accept-Language" \in DOMAIN call.extraHeaders
  /\ call.extraHeaders["Accept-Language"] = <<>>
  /\ "Accept-Language" \notin DOMAIN sent.request.headers
  /\ HeaderOf(sent.request, "Content-Language") = StrEn

(***************************************************************************)
(* C9: a tool call whose arguments fail a declared constraint (an empty    *)
(* required string, a missing or empty required array, a missing value,    *)
(* wincc-get-archive-values with neither variableNames nor archives) hands *)
(* no request to fetch, leaves the credential record and the calls in      *)
(* flight as they were, and completes at once without an exception leaving *)
(* the handler; the handler's own check reports its error as text.         *)
(***************************************************************************)
C9_InvalidArgumentsRejected ==
  [][(invoked'.present /\ FailsDeclaredConstraint(invoked'.tool, invoked'.args)) =>
       /\ ~sent'.request.present
       /\ ~call'.present
       /\ sessionData' = sessionData
       /\ inflight' = inflight
       /\ done'.present
       /\ done'.fetches = 0
       /\ ~done'.result.escaped
       /\ invoked'.tool.kind = "archvalues" =>
            done'.result = ErrorText(invoked'.tool.name, <<>>, NeitherErr)]_vars

\* login-user with an empty username while a startup bearer token is set:
\* rejected, the token is still there.
C9_EmptyUsernameKeepsToken ==
  /\ invoked.present
  /\ invoked.tool.name = "login-user"
  /\ invoked.args.username = <<>>
  /\ sessionData = [usr |-> DefaultUsr, pwd |-> DefaultPwd, bearerToken |-> StrTok]
  /\ done.present
  /\ ~done.accepted
  /\ ~sent.request.present

(***************************************************************************)
(* C10: a transport failure and a success answer that is not JSON make     *)
(* makeWinCCRequest throw; it returns no data, and the handler returns its *)
(* error text with that error, as it does for a non-2xx status.            *)
(***************************************************************************)
C10_TransportAndParseFailuresRethrown ==
  (done.present /\ done.fetches = 1
     /\ (done.response.kind = "neterr"
           \/ (done.response.kind = "http" /\ done.response.status \in 200..299
                 /\ ~done.response.json))) =>
    /\ done.outcome.threw
    /\ done.outcome.error # NoErr
    /\ done.outcome.data = NoData
    /\ done.result = ErrorText(done.tool, done.ids, done.outcome.error)

\* wincc-write-tag-value("a", 0) answered 200 with a body that is not JSON.
C10_NonJsonSuccessReported ==
  /\ done.present
  /\ done.tool = "wincc-write-tag-value"
  /\ done.response.status = 200
  /\ ~done.response.json
  /\ done.outcome.parsed
  /\ done.result = ErrorText("wincc-write-tag-value", <<StrA>>, Err("Unexpected token", 0, ""))

(***************************************************************************)
(* C11 as stated: on a success status with a JSON body makeWinCCRequest    *)
(* returns the value the body stands for, unchanged, and the text of the   *)
(* tool's result embeds the serialization of exactly that value.           *)
(***************************************************************************)
ReturnsBackendValue ==
  (done.present /\ done.response.kind = "http" /\ done.response.status \in 200..299
     /\ done.response.json) =>
    /\ ~done.outcome.threw
    /\ done.outcome.data.t \in {"null", "object", "array"}
    /\ [done.outcome.data EXCEPT !.t = "json", !.of = done.outcome.data.t] = done.response.data

EmbedsBackendValue ==
  /\ done.result.content[1].text.ok
  /\ done.result.content[1].text.data.t = "json"
  /\ [done.result.content[1].text.data EXCEPT !.t = done.result.content[1].text.data.of,
                                              !.of = ""] = done.outcome.data

C11_ResultEmbedsBackendValue ==
  /\ ReturnsBackendValue
  /\ (done.present /\ done.response.kind = "http" /\ done.response.status \in 200..299
        /\ done.response.json) => EmbedsBackendValue

(***************************************************************************)
(* C11, amended: on a success status with a JSON body makeWinCCRequest     *)
(* returns the value the body stands for, unchanged, and the text of the   *)
(* result of every tool other than login-user embeds the serialization of  *)
(* exactly that value; login-user returns its confirmation text, which     *)
(* embeds nothing of the value.                                            *)
(***************************************************************************)
C11_ResultEmbedsBackendValueExceptLogin ==
  /\ ReturnsBackendValue
  /\ (done.present /\ done.response.kind = "http" /\ done.response.status \in 200..299
        /\ done.response.json) =>
       IF done.tool = "login-user"
       THEN done.result.content[1].text.ok /\ done.result.content[1].text.data = NoData
       ELSE EmbedsBackendValue

\* wincc-get-tag-value("a") answered 200 with {"value":"a"}: the text embeds
\* the serialization of {"value":"a"}.
C11_TagValueTextEmbedsValue ==
  /\ done.present
  /\ done.tool = "wincc-get-tag-value"
  /\ done.response.status = 200
  /\ done.outcome.data = [t |-> "object", of |-> "", key |-> "value", strs |-> <<<<97>>>>,
                          items |-> <<>>]
  /\ done.result.content[1].text.data =
       [t |-> "json", of |-> "object", key |-> "value", strs |-> <<<<97>>>>, items |-> <<>>]

(***************************************************************************)
(* C12: when the backend call of a tool that takes an identifying argument *)
(* fails, the tool returns (the process keeps running) a text that         *)
(* contains every identifying argument as the caller supplied it, together *)
(* with the message of the error; for a non-2xx answer that message holds  *)
(* the numeric status.  An empty string is contained in any text.          *)
(***************************************************************************)
C12_ErrorTextNamesIdentifierAndMessage ==
  (done.present /\ done.response.kind # "none" /\ done.outcome.threw) =>
    /\ ~done.result.escaped
    /\ ~done.result.content[1].text.ok
    /\ \A id \in done.supplied \ {<<>>} :
         \E i \in 1..Len(done.result.content[1].text.ids) :
           done.result.content[1].text.ids[i] = id
    /\ done.result.content[1].text.error = done.outcome.error
    /\ (done.response.kind = "http" /\ done.response.status \notin 200..299) =>
         /\ done.outcome.error.fmt = "HTTP {status}: {statusText}"
         /\ done.outcome.error.status = done.response.status

(***************************************************************************)
(* C13: a dispatch reads the credential record once, when it builds its    *)
(* request: a call that enters flight carries the Authorization of the     *)
(* record as it is in that step (login-user's own request that of the      *)
(* record it has just written), and a login-user leaves every request      *)
(* already in flight as it was sent.  Beside a login, a call therefore     *)
(* goes out with the old or with the new credentials according to whether  *)
(* it was dispatched before or after the login's assignments.              *)
(***************************************************************************)
HeaderByPrecedence(sd) ==
  IF sd.bearerToken \notin Unset THEN BearerPrefix \o sd.bearerToken
  ELSE IF sd.usr \notin Unset /\ sd.pwd \notin Unset
  THEN BasicPrefix \o Base64(Utf8(sd.usr \o <<58>> \o sd.pwd))
  ELSE UNDEF

Completes(h) == ResponseArrives /\ inflight' = inflight (-) SetToBag({h})

CompletesOnlyItself ==
  (done'.present /\ done'.response.kind # "none") =>
    /\ sessionData' = sessionData
    /\ \E h \in BagToSet(inflight) :
         /\ inflight' = inflight (-) SetToBag({h})
         /\ done'.tool = h.tool
         /\ done'.supplied = h.supplied
         /\ done'.result = HandlerResult(h.tool, h.ids, Settle(done'.response))

DispatchesOnItsOwn ==
  sent'.request.present =>
    /\ inflight \sqsubseteq inflight'
    /\ BagCardinality(inflight') = BagCardinality(inflight) + 1
    /\ sent'.request = BuildRequest(sessionData', call'.endpoint, call'.method, call'.body,
                                    call'.extraHeaders)

C14_InFlightCallsAreIndependent ==
  /\ [](\A h \in BagToSet(inflight) : ENABLED Completes(h))
  /\ [][CompletesOnlyItself /\ DispatchesOnItsOwn]_vars

\* A wincc-get-archive-values call dispatched while a wincc-get-connection
\* call was in flight has completed; the earlier call is still in flight.
C14_LaterCallCompletesFirst ==
  /\ done.present
  /\ done.tool = "wincc-get-archive-values"
  /\ done.response.kind = "http"
  /\ \E h \in BagToSet(inflight) : h.tool = "wincc-get-connection" /\ h.ahead = 0

(***************************************************************************)
(* C15: the configured port is the value of --port, else that of $PORT     *)
(* (an empty --port value counts as none given).  When it is not an        *)
(* integer in 1..65535 the process gets no further than the port check and *)
(* exits with a non-zero status, app.listen not called; the listener is    *)
(* opened only with an integer in 1..65535, the configured one, and with   *)
(* 3000 when no port is configured.  A process asked for its help text     *)
(* prints it and exits with status 0 before any of this.                   *)
(***************************************************************************)
ConfiguredPort ==
  IF Arg(startup.args, KeyPort) \notin {UNDEF, <<>>} THEN Arg(startup.args, KeyPort)
  ELSE startup.env.PORT

IsPortNumber(n) == ~n.nan /\ ~n.frac /\ n.val \in 1..65535

FlagElseEnv(key, env, default) ==
  IF key \in DOMAIN startup.args THEN startup.args[key]
  ELSE IF env \notin {UNDEF, <<>>} THEN env
  ELSE default

C16_FlagThenEnvironmentThenDefault ==
  /\ startup.pc \in {"configured", "validated", "printed", "listening"} =>
       /\ startup.config.WINCC_URL = FlagElseEnv(KeyUrl, startup.env.WINCC_URL, DefaultUrl)
       /\ startup.config.WINCC_USR = FlagElseEnv(KeyUsr, startup.env.WINCC_USR, DefaultUsr)
       /\ startup.config.WINCC_PWD = FlagElseEnv(KeyPwd, startup.env.WINCC_PWD, DefaultPwd)
       /\ startup.config.WINCC_BEARER_TOKEN
            = FlagElseEnv(KeyToken, startup.env.WINCC_BEARER_TOKEN, NULL)
       /\ startup.config.WINCC_ALLOW_ORIGIN
            = FlagElseEnv(KeyOrigin, startup.env.WINCC_ALLOW_ORIGIN, NULL)
       /\ startup.config.WINCC_SKIP_CERT_VALIDATION
            = parseBoolean(FlagElseEnv(KeySkip, startup.env.WINCC_SKIP_CERTIFICATE_VALIDATION,
                                       UNDEF), FALSE)
       /\ startup.config.DEBUG
            = parseBoolean(FlagElseEnv(KeyDebug, startup.env.DEBUG, UNDEF), FALSE)
  /\ startup.pc = "listening" =>
       startup.listen = IF FlagElseEnv(KeyPort, startup.env.PORT, UNDEF) = UNDEF THEN 3000
                        ELSE NumberOf(FlagElseEnv(KeyPort, startup.env.PORT, UNDEF)).val

(***************************************************************************)
(* C17 as stated: for every tagName and every value the schema permits,    *)
(* falsy ones included, wincc-write-tag-value hands exactly one request to *)
(* fetch: a PUT to /tagManagement/Value/<percent-encoded tagName> whose    *)
(* body is the JSON text of {"value": value}.                              *)
(***************************************************************************)
IsPutOfValue ==
  /\ sent.request.present
  /\ sent.by = "wincc-write-tag-value"
  /\ sent.request.method = "PUT"
  /\ sent.request.endpoint =
       [path |-> "/tagManagement/Value/{}", ids |-> <<encodeURIComponent(invoked.args.id1)>>,
        query |-> <<>>]
  /\ sent.request.body =
       [t |-> "json", of |-> "object", key |-> "value", strs |-> <<invoked.args.value>>,
        items |-> <<>>]
  /\ \A h \in BagToSet(inflight) : h.fetches = 1

WriteTagValueDoneAfterOne ==
  (done.present /\ done.tool = "wincc-write-tag-value") =>
    (done.fetches <= 1 /\ ~sent.request.present)

C18_ArchiveValuesBodySelection ==
  (invoked.present /\ invoked.tool.name = "wincc-get-archive-values") =>
    /\ sent.request.present =>
         /\ sent.request.method = "POST"
         /\ sent.request.endpoint = [path |-> "/tagLogging/Values", ids |-> <<>>, query |-> <<>>]
    /\ invoked.args.names # <<UNDEF>> =>
         /\ sent.request.present
         /\ sent.request.body = [t |-> "json", of |-> "object", key |-> "variableNames",
                                 strs |-> invoked.args.names, items |-> <<>>]
    /\ (invoked.args.names = <<UNDEF>> /\ invoked.args.items # UndefItems) =>
         /\ sent.request.present
         /\ sent.request.body = [t |-> "json", of |-> "object", key |-> "archives",
                                 strs |-> <<>>, items |-> invoked.args.items]
    /\ (invoked.args.names = <<UNDEF>> /\ invoked.args.items = UndefItems) =>
         /\ ~sent.request.present
         /\ done.present
         /\ done.fetches = 0
         /\ ~done.result.content[1].text.ok

\* Called with variableNames = ["a"] and an archives array beside it: the
\* body names the variables and carries no archives.
C18_VariableNamesWinOverArchives ==
  /\ invoked.present
  /\ invoked.tool.name = "wincc-get-archive-values"
  /\ invoked.args.names = <<<<97>>>>
  /\ invoked.args.items # UndefItems
  /\ sent.request.body.key = "variableNames"
  /\ sent.request.body.items = <<>>

(***************************************************************************)
(* C19: GET dispatches repeated with the same endpoint and extra headers,  *)
(* the credentials and the backend's state unchanged, hand identical       *)
(* requests to fetch and return identical results (the same JSON value, or *)
(* the same error); a dispatch changes neither the credential record nor   *)
(* its own arguments.                                                      *)
(***************************************************************************)
C19_RepeatedGetIsIdempotent ==
  /\ [](\A i, j \in 1..Len(history.runs) :
          /\ history.runs[i].request = history.runs[j].request
          /\ (history.runs[i].answered /\ history.runs[j].answered) =>
               history.runs[i].outcome = history.runs[j].outcome)
  /\ [](\A i \in 1..Len(history.runs) :
          (history.runs[i].answered /\ ~history.runs[i].outcome.threw) =>
            [history.runs[i].outcome.data EXCEPT !.t = "json",
                                                 !.of = history.runs[i].outcome.data.t]
              = history.backend.data)
  /\ [][sessionData' = sessionData /\ call' = call]_vars

\* Two dispatches under the login "a"/"b", both answered 200 with
\* {"value":"a"}: the same request twice, the same value twice.
C19_SameValueTwice ==
  /\ Len(history.runs) = 2
  /\ history.runs[2].answered
  /\ sessionData = [usr |-> <<97>>, pwd |-> <<98>>, bearerToken |-> NULL]
  /\ history.backend.status = 200
  /\ history.runs[1].outcome.data.t = "object"
  /\ history.runs[2].outcome.data = history.runs[1].outcome.data
  /\ history.runs[2].request = history.runs[1].request
  /\ history.runs[2].request.method = "GET"

(***************************************************************************)
(* C20: a tool that puts an identifier into the path puts it there as one  *)
(* percent-encoded segment: whatever the identifier ("/", " ", "?", "#",   *)
(* "%" included), the path the request goes out with has as many segments  *)
(* as the template, there is no query and no fragment, and the segment at  *)
(* the identifier's place decodes back to the identifier.                  *)
(***************************************************************************)
\* The places of the identifiers among the segments of the outbound path
\* (after the one segment of the base path).
IdentifierPlaces(path) ==
  CASE path = "/tagManagement/Value/{}" -> <<4>>
    [] path = "/tagLogging/Archive/{}/Variable/{}" -> <<4, 6>>
    [] path = "/tagLogging/Archive/{}/Variables" -> <<4>>

TemplateSegments(path) ==
  CASE path = "/tagManagement/Value/{}" -> 4
    [] path = "/tagLogging/Archive/{}/Variable/{}" -> 6
    [] path = "/tagLogging/Archive/{}/Variables" -> 5

SuppliedIdentifiers ==
  IF invoked.tool.kind = "ident2" THEN <<invoked.args.id1, invoked.args.id2>>
  ELSE <<invoked.args.id1>>

C20_IdentifierIsOneEncodedSegment ==
  (sent.request.present /\ invoked.present /\ PathIdentifiers(invoked.tool, invoked.args) # {}) =>
    LET target == RequestTarget(BasePath, EndpointString(sent.request.endpoint))
        places == IdentifierPlaces(invoked.tool.path)
    IN  /\ Len(target.segments) = TemplateSegments(invoked.tool.path)
        /\ target.query = UNDEF
        /\ target.fragment = UNDEF
        /\ \A k \in 1..Len(places) :
             /\ places[k] <= Len(target.segments)
             /\ decodeURIComponent(target.segments[places[k]]) = SuppliedIdentifiers[k]

(***************************************************************************)
(* C21: a runtime message-list tool sends the query parameter maxValues    *)
(* exactly when it is the short-term archive, long-term archive or hit     *)
(* list tool and the caller supplied a number (0 included), with that      *)
(* number as its value; the other four never send it, and none of the      *)
(* seven sends itemLimit or continuationPoint.                             *)
(***************************************************************************)
MaxValuesTools ==
  {"wincc-get-alarm-short-term-archive", "wincc-get-alarm-long-term-archive",
   "wincc-get-alarm-hit-list"}

MessageListTools ==
  MaxValuesTools \cup
  {"wincc-get-alarm-message-list", "wincc-get-alarm-lock-list", "wincc-get-alarm-hide-list",
   "wincc-get-alarm-hidden-message-list"}

C21_MaxValuesOnlyWhereAllowed ==
  (sent.request.present /\ sent.by \in MessageListTools) =>
    /\ invoked.present /\ invoked.tool.name = sent.by
    /\ \A i \in 1..Len(sent.request.endpoint.query) :
         sent.request.endpoint.query[i].name = "maxValues"
    /\ IF sent.by \in MaxValuesTools /\ invoked.args.maxValues # <<>>
       THEN sent.request.endpoint.query =
              <<[name |-> "maxValues", value |-> NumberToString(invoked.args.maxValues[1])]>>
       ELSE sent.request.endpoint.query = <<>>

\* wincc-get-alarm-hit-list("a", maxValues = 0): the query is maxValues=0.
C21_HitListSendsZero ==
  /\ sent.request.present
  /\ sent.by = "wincc-get-alarm-hit-list"
  /\ invoked.args.maxValues = <<0>>
  /\ sent.request.endpoint.query = <<[name |-> "maxValues", value |-> <<48>>]>>

C22_GetAnswered == reply.present /\ reply.method = "GET"

(***************************************************************************)
(* C23: every request handed to fetch carries Content-Type:                *)
(* application/json and Accept: application/json, whatever the method, the *)
(* body and the extraHeaders, extraHeaders that name one of the two        *)
(* included.                                                               *)
(***************************************************************************)
C23_AlwaysJsonHeaders ==
  sent.request.present =>
    /\ HeaderOf(sent.request, "Content-Type") = AppJson
    /\ HeaderOf(sent.request, "Accept") = AppJson

\* C23 as the code has it: the two headers are application/json unless
\* extraHeaders holds a value under the same name that is neither undefined,
\* null nor '', which then is the header's value; no tool passes such an
\* entry, so every request of a tool carries both.
JsonHeaderNames == {"Content-Type", "Accept"}

C23_JsonHeadersUnlessReplaced ==
  (sent.request.present /\ call.present) =>
    /\ \A name \in JsonHeaderNames :
         HeaderOf(sent.request, name) =
           IF name \in DOMAIN call.extraHeaders /\ call.extraHeaders[name] \notin Unset
           THEN call.extraHeaders[name]
           ELSE AppJson
    /\ invoked.present =>
         \A name \in JsonHeaderNames : HeaderOf(sent.request, name) = AppJson

\* makeWinCCRequest(endpoint, 'POST', body, { Accept: '' }): the entry is
\* skipped and Accept stays application/json.
C23_EmptyAcceptSkipped ==
  /\ sent.request.present
  /\ "Accept" \in DOMAIN call.extraHeaders /\ call.extraHeaders["Accept"] = <<>>
  /\ call.method = "POST"
  /\ HeaderOf(sent.request, "Accept") = AppJson
  /\ HeaderOf(sent.request, "Content-Type") = AppJson

(***************************************************************************)
(* C24: the merge of extraHeaders skips every entry whose value is not a   *)
(* string (a number, a boolean), as it skips the empty and the absent      *)
(* ones: every header of the request handed to fetch has a string value.   *)
(***************************************************************************)
C24_OnlyStringHeaderValues ==
  sent.request.present =>
    \A k \in DOMAIN sent.request.headers : IsString(sent.request.headers[k])

(***************************************************************************)
(* C25: the configuration printed at startup shows, for the password and   *)
(* for a configured bearer token, '***' followed by a proper suffix of the *)
(* secret, at most its last 3 (password) or last 8 (token) code units:     *)
(* never the whole secret.                                                 *)
(***************************************************************************)
IsProperSuffix(t, s) == Len(t) < Len(s) /\ t = SubSeq(s, Len(s) - Len(t) + 1, Len(s))

ShowsProperSuffix(line, secret, n) ==
  \E k \in 0..n : line = Stars \o SliceLast(secret, k) /\ IsProperSuffix(SliceLast(secret, k), secret)

C25_SecretsNeverPrintedInFull ==
  startup.printed.present =>
    /\ ShowsProperSuffix(startup.printed.password, startup.config.WINCC_PWD, 3)
    /\ Truthy(startup.config.WINCC_BEARER_TOKEN) =>
         ShowsProperSuffix(startup.printed.token, startup.config.WINCC_BEARER_TOKEN, 8)

(***************************************************************************)
(* C26: a configuration-listing tool forwards each of itemLimit and        *)
(* continuationPoint the caller supplied as a query parameter of the same  *)
(* name and value, sends no parameter the caller did not supply, and sends *)
(* no query at all when neither was supplied.                              *)
(***************************************************************************)
ListingKinds == {"paged", "identpaged", "apaged"}

Forwarded(name, n) == IF n = <<>> THEN <<>> ELSE <<[name |-> name, value |-> NumberToString(n[1])]>>

C26_SuppliedPagingIsForwarded ==
  (sent.request.present /\ invoked.present /\ invoked.tool.kind \in ListingKinds) =>
    sent.request.endpoint.query =
      Forwarded("itemLimit", invoked.args.itemLimit)
        \o Forwarded("continuationPoint", invoked.args.continuationPoint)

(***************************************************************************)
(* C27: login-user stores the new username and password and clears the     *)
(* bearer token in the step that receives the call, before any answer of   *)
(* the backend, and hands exactly one request to fetch, a GET of            *)
(* /tagManagement/Connections.  It returns its success text only when that *)
(* request succeeded and its 'Login failed' text otherwise; in both cases  *)
(* the record keeps the new pair with no bearer token, and a request built *)
(* afterwards carries the Authorization of that pair.                      *)
(***************************************************************************)
LoginCommitsAtOnce ==
  (invoked'.present /\ invoked'.tool.name = "login-user"
     /\ SchemaOK(invoked'.tool, invoked'.args)) =>
    /\ sessionData' = [usr |-> invoked'.args.username, pwd |-> invoked'.args.password,
                       bearerToken |-> NULL]
    /\ ~done'.present
    /\ sent'.request.present
    /\ sent'.request.method = "GET"
    /\ sent'.request.endpoint = Endpoint("/tagManagement/Connections", <<>>, <<>>)
    /\ sent'.request.body = NoBody
    /\ BagCardinality(inflight') = BagCardinality(inflight) + 1

LoginNeverRolledBack ==
  /\ lastLogin.set =>
       /\ sessionData = LoggedIn(lastLogin.username, lastLogin.password)
       /\ sent.request.present =>
            HeaderOf(sent.request, "Authorization")
              = AuthorizationOf(LoggedIn(lastLogin.username, lastLogin.password))
  /\ (done.present /\ done.tool = "login-user" /\ done.accepted) =>
       /\ done.fetches = 1
       /\ done.result.content[1].text.ok
            => (done.response.kind = "http" /\ done.response.status \in 200..299)
       /\ done.result =
            IF done.outcome.threw
            THEN ErrorText("login-user", <<lastLogin.username>>, done.outcome.error)
            ELSE mcpResult(Text("login-user", TRUE, <<lastLogin.username>>, NoErr, NoData))

C27_LoginCommitsBeforeVerification ==
  []LoginNeverRolledBack /\ [][LoginCommitsAtOnce]_vars

\* login-user("a", "b") answered 401: 'Login failed' is returned and the
\* record holds ("a", "b") with no bearer token.
C27_RejectedLoginStaysStored ==
  /\ done.present /\ done.tool = "login-user"
  /\ done.response.status = 401
  /\ done.result = ErrorText("login-user", <<StrA>>, done.outcome.error)
  /\ sessionData = [usr |-> StrA, pwd |-> StrB, bearerToken |-> NULL]

(***************************************************************************)
(* C28: once the credential record exists its username and password are    *)
(* both set and non-empty, so every request handed to fetch, and every     *)
(* request in flight, carries an Authorization header, Bearer or Basic.    *)
(***************************************************************************)
IsBearerOrBasic(a) == a # UNDEF /\ (StartsWith(a, BearerPrefix) \/ StartsWith(a, BasicPrefix))

C28_AuthorizationAlwaysSent ==
  sessionData # NoSessionData =>
    /\ Truthy(sessionData.usr)
    /\ Truthy(sessionData.pwd)
    /\ sent.request.present => IsBearerOrBasic(HeaderOf(sent.request, "Authorization"))
    /\ \A h \in BagToSet(inflight) : IsBearerOrBasic(h.authorization)

\* A request of another tool after a login: it carries Basic credentials.
C28_BasicAfterLogin ==
  /\ sent.request.present
  /\ invoked.tool.name # "login-user"
  /\ lastLogin.set
  /\ StartsWith(HeaderOf(sent.request, "Authorization"), BasicPrefix)

(***************************************************************************)
(* C29: a dispatch computes its Authorization header in one step from the  *)
(* credential record as it is when the dispatch starts: the header of a    *)
(* call of another tool is that of the record before the step, the header  *)
(* of login-user's verification request that of the call's own username    *)
(* and password.  No later step changes the header of a request in flight, *)
(* and every header in flight is that of the startup record or of one      *)
(* login's pair, never of the username of one login with the password of   *)
(* another.                                                                *)
(***************************************************************************)
\* The headers of the startup records and of the pairs login-user is called with.
UnmixedHeaders ==
  {AuthorizationOf(InitialSessionData(UNDEF, UNDEF, UNDEF, UNDEF, t, UNDEF)) : t \in CliTokens}
  \cup {AuthorizationOf(LoggedIn(l[1], l[2])) : l \in ConcLogins}

HeaderFromRecordAtStart ==
  /\ (invoked'.present /\ sent'.request.present) =>
       HeaderOf(sent'.request, "Authorization") =
         IF invoked'.tool.name = "login-user"
         THEN BasicPrefix \o Base64(Utf8(invoked'.args.username \o <<58>> \o invoked'.args.password))
         ELSE AuthorizationOf(sessionData)
  /\ \A h \in BagToSet(inflight') :
       \/ CopiesIn(h, inflight') <= CopiesIn(h, inflight)
       \/ /\ sent'.request.present
          /\ h.authorization = HeaderOf(sent'.request, "Authorization")
          /\ CopiesIn(h, inflight') = CopiesIn(h, inflight) + 1

C29_HeaderIsAtomicSnapshot ==
  [](\A h \in BagToSet(inflight) : h.authorization \in UnmixedHeaders)
    /\ [][HeaderFromRecordAtStart]_vars

\* A wincc-get-connection dispatched after login-user("a", "b") is still in
\* flight, with the header of ("a", "b"), after login-user("a:", "c") has
\* replaced the record.
C29_DispatchKeepsHeaderAcrossLogin ==
  /\ sessionData = LoggedIn(StrAColon, StrC)
  /\ \E h \in BagToSet(inflight) :
       /\ h.tool = "wincc-get-connection"
       /\ h.authorization = AuthorizationOf(LoggedIn(StrA, StrB))

(***************************************************************************)
(* C30: when login-user calls overlap, the credential record holds, from   *)
(* the start of the later handler on, the pair of the call whose handler   *)
(* started last: the completion of either call, in either order, with      *)
(* success or failure, does not write the record.  Each call's result      *)
(* names its own username and reports its own request's outcome, so a      *)
(* login can return its success text while the record holds the other      *)
(* call's pair.                                                            *)
(***************************************************************************)
LastStartedLoginWins ==
  /\ lastLogin.set =>
       sessionData = [usr |-> lastLogin.username, pwd |-> lastLogin.password,
                      bearerToken |-> NULL]
  /\ (done.present /\ done.tool = "login-user" /\ done.accepted) =>
       /\ Len(done.ids) = 1
       /\ done.result =
            IF done.response.kind = "http" /\ done.response.status \in 200..299
               /\ done.response.json
            THEN mcpResult(Text("login-user", TRUE, done.ids, NoErr, NoData))
            ELSE ErrorText("login-user", done.ids, done.outcome.error)

CompletionKeepsRecord == done'.present => (sessionData' = sessionData /\ lastLogin' = lastLogin)

C30_LastStartedLoginWins ==
  []LastStartedLoginWins /\ [][CompletionKeepsRecord]_vars

\* login-user("a", "b") started first and completes last, successfully,
\* after login-user("a:", "c") has started and completed: the result says
\* logged in as "a", the record holds ("a:", "c").
C30_SuccessTextForOtherCredentials ==
  /\ done.present /\ done.tool = "login-user"
  /\ done.ids = <<StrA>>
  /\ done.result = mcpResult(Text("login-user", TRUE, <<StrA>>, NoErr, NoData))
  /\ inflight = EmptyBag
  /\ sessionData = LoggedIn(StrAColon, StrC)

=============================================================================
